---- MODULE Spec2Model ----
(***************************************************************************)
(* Session-and-retry engine of the go-qbt client (client.go, sdk.go,       *)
(* errors.go): the shared session state of one Client, API calls made      *)
(* through doWithRetry by concurrent callers, the login loop, and the two  *)
(* retry executors driven by a scripted operation.                         *)
(***************************************************************************)
EXTENDS Integers, Sequences, FiniteSets, TLC

(***************************************************************************)
(* Bounds of the model.                                                    *)
(***************************************************************************)
\* largest retryConfig.MaxRetries of the client whose API calls are explored
MaxRetriesBound == 2
AdminRetries == 1
\* largest retryConfig.MaxRetries handed to the executors under a scripted operation
MaxScriptRetries == 2
\* login attempts of one call are counted up to this number
MaxLoginsCounted == 3

\* the goroutines that call API methods on the one client
Callers == {"c1", "c2"}

(***************************************************************************)
(* Errors.  A Go error value is a record; typ names its dynamic type.      *)
(*   nil            the nil error                                          *)
(*   ClientError    *ClientError {Code, Permanent}                         *)
(*   DNSError, OpError, CertError   typed transport errors                 *)
(*   untyped        errors.New / fmt.Errorf without %w                     *)
(*   wrap           fmt.Errorf("... %w", inner)                            *)
(*   URLError       *url.Error {Op, URL, Err}, what http.Client.Do returns *)
(* has is the set of pattern groups of classifyByMessage that the          *)
(* lower-cased message contains.                                           *)
(***************************************************************************)
ErrorCodeNone == ""
ErrorCodeAuthFailure == "AUTH_FAILURE"
ErrorCodeTimeout == "TIMEOUT"
ErrorCodeDNS == "DNS_ERROR"
ErrorCodeHTTPSRequired == "HTTPS_REQUIRED"
ErrorCodeSSLError == "SSL_ERROR"
ErrorCodeConnectionRefused == "CONNECTION_REFUSED"
ErrorCodeNetworkUnreachable == "NETWORK_UNREACHABLE"
ErrorCodeBadGateway == "BAD_GATEWAY"
ErrorCodeServiceUnavailable == "SERVICE_UNAVAILABLE"
ErrorCodeUnknown == "UNKNOWN"

StatusInitializing == "initializing"
StatusConnected == "connected"
StatusUnauthorized == "unauthorized"
StatusUnaccessible == "unaccessible"

NilErr == [typ |-> "nil"]

NewClientError(code, permanent) ==
    [typ |-> "ClientError", Code |-> code, Permanent |-> permanent]

\* fmt.Errorf("<name> <msg> <n>: %w", inner): name is the operation label and n the
\* number the message prints ("" and 0 when it prints none)
Wrap(name, msg, n, inner) ==
    [typ |-> "wrap", name |-> name, msg |-> msg, n |-> n, inner |-> inner]

\* errors.New / fmt.Errorf(msg, n) without %w, whose message contains the pattern
\* groups in has
Untyped(msg, n, has) == [typ |-> "untyped", msg |-> msg, n |-> n, has |-> has]

\* typed transport errors: a name-resolution failure, a dial/read failure, a
\* certificate failure
DNSError == [typ |-> "DNSError", has |-> {"dns"}]
OpError(dial, timeout, has) ==
    [typ |-> "OpError", dial |-> dial, timeout |-> timeout, has |-> has]
CertError == [typ |-> "CertError", has |-> {"ssl"}]

\* &url.Error{Op, URL, Err: inner}; has is what the text of Op and URL contains
URLError(inner, has) == [typ |-> "URLError", inner |-> inner, has |-> has]

\* Unwrap: the types whose values carry an inner error
Wrappers == {"wrap", "URLError"}

\* faulty variants of the classifiers: errors.As replaced by a type assertion on
\* the error itself; 500 taken for a gateway failure
AsClientErrorShallow(e) == IF e.typ = "ClientError" THEN e ELSE NilErr
classifyHTTPStatusCode5xx(statusCode) ==
    IF statusCode \in {401, 403} THEN NewClientError(ErrorCodeAuthFailure, TRUE)
    ELSE IF statusCode \in {500, 502} THEN NewClientError(ErrorCodeBadGateway, FALSE)
    ELSE IF statusCode = 503 THEN NewClientError(ErrorCodeServiceUnavailable, FALSE)
    ELSE IF statusCode = 504 THEN NewClientError(ErrorCodeTimeout, FALSE)
    ELSE NewClientError(ErrorCodeUnknown, FALSE)

\* errors.As(err, &clientErr): the first *ClientError on the Unwrap chain, or nil
RECURSIVE AsClientError(_)
AsClientError(e) ==
    IF e.typ = "ClientError" THEN e
    ELSE IF e.typ \in Wrappers THEN AsClientError(e.inner)
    ELSE NilErr

\* the first typed transport error on the Unwrap chain, or nil
RECURSIVE AsTyped(_, _)
AsTyped(e, t) ==
    IF e.typ = t THEN e
    ELSE IF e.typ \in Wrappers THEN AsTyped(e.inner, t)
    ELSE NilErr

\* the pattern groups of the whole message: %w prints the inner message too, and
\* so does url.Error
RECURSIVE MessageHas(_)
MessageHas(e) ==
    IF e.typ = "wrap" THEN MessageHas(e.inner)
    ELSE IF e.typ = "URLError" THEN e.has \cup MessageHas(e.inner)
    ELSE IF e.typ \in {"nil", "ClientError"} THEN {}
    ELSE e.has

classifyByMessage(has) ==
    IF "timeout" \in has THEN NewClientError(ErrorCodeTimeout, FALSE)
    ELSE IF "ssl" \in has THEN NewClientError(ErrorCodeSSLError, TRUE)
    ELSE IF "https" \in has THEN NewClientError(ErrorCodeHTTPSRequired, TRUE)
    ELSE IF "refused" \in has THEN NewClientError(ErrorCodeConnectionRefused, FALSE)
    ELSE IF "dns" \in has THEN NewClientError(ErrorCodeDNS, TRUE)
    ELSE IF "auth" \in has THEN NewClientError(ErrorCodeAuthFailure, TRUE)
    ELSE NewClientError(ErrorCodeUnknown, FALSE)

classifyOpError(op) ==
    IF op.dial /\ "refused" \in op.has
    THEN NewClientError(ErrorCodeConnectionRefused, FALSE)
    ELSE IF op.dial /\ "unreachable" \in op.has
    THEN NewClientError(ErrorCodeNetworkUnreachable, FALSE)
    ELSE IF op.timeout THEN NewClientError(ErrorCodeTimeout, FALSE)
    ELSE NewClientError(ErrorCodeUnknown, FALSE)

\* the url.Error branch returns the classification of urlErr.Err whenever Err is
\* not nil: ClassifyError is never nil for a non-nil error
RECURSIVE ClassifyError(_)
ClassifyError(e) ==
    IF e.typ = "nil" THEN NilErr
    ELSE IF AsClientError(e) # NilErr THEN AsClientError(e)
    ELSE IF AsTyped(e, "DNSError") # NilErr THEN NewClientError(ErrorCodeDNS, TRUE)
    ELSE IF AsTyped(e, "OpError") # NilErr THEN classifyOpError(AsTyped(e, "OpError"))
    ELSE IF /\ AsTyped(e, "URLError") # NilErr
            /\ AsTyped(e, "URLError").inner # NilErr
    THEN ClassifyError(AsTyped(e, "URLError").inner)
    ELSE IF AsTyped(e, "CertError") # NilErr THEN NewClientError(ErrorCodeSSLError, TRUE)
    ELSE classifyByMessage(MessageHas(e))

IsPermanentError(e) ==
    IF e.typ = "nil" THEN FALSE
    ELSE IF AsClientError(e) # NilErr THEN AsClientError(e).Permanent
    ELSE ClassifyError(e).Permanent

IsRetryableError(e) ==
    IF e.typ = "nil" THEN FALSE
    ELSE IF AsClientError(e) # NilErr THEN ~AsClientError(e).Permanent
    ELSE ~ClassifyError(e).Permanent

GetErrorCode(e) ==
    IF e.typ = "nil" THEN ErrorCodeNone
    ELSE IF AsClientError(e) # NilErr THEN AsClientError(e).Code
    ELSE ClassifyError(e).Code

classifyHTTPStatusCode(statusCode) ==
    IF statusCode \in {401, 403} THEN NewClientError(ErrorCodeAuthFailure, TRUE)
    ELSE IF statusCode = 502 THEN NewClientError(ErrorCodeBadGateway, FALSE)
    ELSE IF statusCode = 503 THEN NewClientError(ErrorCodeServiceUnavailable, FALSE)
    ELSE IF statusCode = 504 THEN NewClientError(ErrorCodeTimeout, FALSE)
    ELSE NewClientError(ErrorCodeUnknown, FALSE)

\* the error loginWithContext and retryWithBackoffWithContext return once
\* authFailed is latched
AuthPermanentlyFailed == NewClientError(ErrorCodeAuthFailure, TRUE)

(***************************************************************************)
(* State of one Client and of the goroutines that use it.                  *)
(***************************************************************************)
VARIABLES
    maxRetries,     \* retryConfig.MaxRetries
    cookieValid,    \* Client.cookieValid (guarded by cookieValidMu)
    cookieCache,    \* names of the cookies in Client.cookieCache.cookies
    status,         \* Client.status (guarded by mu)
    authFailed,     \* Client.authFailed (guarded by authFailedMu)
    lastError,      \* Client.lastError (guarded by lastErrorMu)
    lastLoginTime,  \* Client.lastLoginTime: "zero" or the time of a login
    pc,             \* per caller: where its API call stands
    attempt,        \* per caller: loop index of retryWithBackoff in doWithRetry
    lattempt,       \* per caller: loop index of the login loop
    err,            \* per caller: lastErr of retryWithBackoff, at "done" the returned error
    lerr,           \* per caller: lastErr of the login loop, clientErr of a login
    resp,           \* per caller: doWithRetry's resp (0 is a nil response)
    hist,           \* per caller: what the call has observed so far (history)
    run,            \* one executor call under a scripted operation
    mu,             \* Client.mu: "free", or the call that holds its write lock
    config,         \* Client.config: BaseURL, jar, RequestTimeout
    timeout,        \* Client.client.Timeout, in seconds
    sweep,          \* where the goroutine of startCookieCleanup stands
    admin,          \* the goroutine that calls Update, Close, invalidateCookies
    reset,          \* the goroutine that calls ResetAuthFailure: "idle", or the
                    \* statement it stands before ("lastErr", "status")
    backoff,        \* one RetryConfig and a call of calculateBackoffDelay on it
    classify,       \* one error, one status code and the classifiers' answers
    jar,            \* the session cookie in config.jar, as the server takes it
    body,           \* per caller: the io.Reader its API method passes to
                    \* doWithRetry: "none" (nil), "full" (unread), "drained"
    session         \* history: the latest of "login" (a login was accepted) and
                    \* "invalidated" (the validity flag was cleared); "none"

clientVars == <<maxRetries, cookieValid, cookieCache, status, authFailed,
                lastError, lastLoginTime>>
callVars == <<pc, attempt, lattempt, err, lerr, resp, hist>>
lifeVars == <<mu, config, timeout, sweep, admin, reset>>
vars == <<clientVars, callVars, run, lifeVars, backoff, classify, jar, session, body>>

\* retryConfig.RetryableCodes as newRetryConfig sets it
RetryableCodes == {408, 429, 500, 502, 503, 504}

\* what the network can do to a request: transport errors of request.Do, and the
\* statuses the server answers on each endpoint
TransportErrors == {DNSError, CertError,
                    Untyped("malformed HTTP response", 0, {"https"}),
                    OpError(FALSE, TRUE, {"timeout"}),
                    OpError(TRUE, FALSE, {"refused"})}
ProbeBadStatuses == {500, 503}
LoginBadStatuses == {401, 403, 500}
EndpointStatuses == {200, 400, 404, 401, 403, 408, 429, 500, 502, 503, 504}
SessionCookies == {"SID"}

\* the operation names handed to the executors
ApiLabel == "GET /api/v2/torrents/info"
LoginLabel == "login"

\* DefaultRequestTimeout, in seconds
DefaultRequestTimeout == 30

\* history of one call:
\*   latched        authFailed was true when the call started, no reset since
\*   ensureLatched  authFailed was true when ensureLoginWithContext was entered,
\*                  no reset since
\*   authAt         number of the latest attempt whose endpoint request was
\*                  answered 401/403 (attempts count from 1; 0: none)
\*   foreign        another call's login wrote the session since that answer
\*   loggedIn       this attempt's login succeeded
\*   sent           the call has sent an HTTP request
\*   authSent       this ensureLoginWithContext has sent a probe or a login
\*   healed         the final status answered to an attempt that followed a
\*                  401/403 and logged in (0: no such answer)
\*   wrote          "call": a login of this caller has written the cookie cache,
\*                  the validity flag or the status since the latest call of
\*                  Update, Close or invalidateCookies started; "sweep": it
\*                  has since the latest sweep of an expired session started
\*   requests       endpoint requests the call has sent
\*   denied         endpoint requests of the call answered 401/403
\*   logins         invocations of loginWithContext by the call, counted up to
\*                  MaxLoginsCounted
\*   bodies         the request bodies the attempts of the call handed to the
\*                  transport
\*   probe          outcome of checkAccessibility in the login under way:
\*                  "ok", "failed" ("none": no login is past its probe)
\*   inflight       the session cookie that the endpoint request under way
\*                  carries ("none": no request is under way)
\*   cancelAt       number of the attempt during which the caller of the API
\*                  method raised its cancellation signal (0: it has not)
\*   unsynced       Update has stored a configuration and the goroutine of the
\*                  call has since taken none of the locks Update released
\*                  after the store: its reads of qb.config, which hold no
\*                  lock, are unordered with that store
NoHist == [latched |-> FALSE, ensureLatched |-> FALSE, authAt |-> 0,
           foreign |-> FALSE, loggedIn |-> FALSE, sent |-> FALSE,
           authSent |-> FALSE, healed |-> 0, wrote |-> {}, requests |-> 0,
           denied |-> 0, cancelAt |-> 0, inflight |-> "none",
           probe |-> "none", logins |-> 0, bodies |-> {}, unsynced |-> FALSE]

\* the previous attempt of c's call was answered 401/403
Prev401(c) == hist[c].authAt > 0 /\ hist[c].authAt = attempt[c]

\* c's call stands between the invalidation after a 401/403 and the next attempt
AfterAuthError(c) ==
    /\ hist[c].authAt > 0
    /\ \/ pc[c] = "sleep" /\ hist[c].authAt = attempt[c] + 1
       \/ pc[c] = "ensure" /\ hist[c].authAt = attempt[c]

\* the endpoint answers status s to c's request: the status, when it is final and
\* the attempt follows a 401/403 and has logged in
Healed(c, s) ==
    IF Prev401(c) /\ hist[c].loggedIn /\ s \notin {401, 403} \cup RetryableCodes
    THEN s ELSE 0

(***************************************************************************)
(* Faulty variants of operators defined below.  Each property that is      *)
(* proved is also checked with one of them in place of the operator it     *)
(* names, and must fail there.                                             *)
(***************************************************************************)
\* 408 left out of the retryable statuses
isRetryableStatusCodeNo408(statusCode) ==
    statusCode \in {429, 500, 502, 503, 504}

\* the cached validity flag is never seen set
isCookieValidCachedNever == FALSE

\* the latch is never seen
IsAuthFailedNever == FALSE

\* SetLastError follows the error in both directions: an error other than an
\* authentication failure clears the latch
SetLastErrorUnlatching(e) ==
    /\ lastError' = IF e = NilErr THEN NilErr ELSE ClassifyError(e)
    /\ authFailed' = (e # NilErr /\ ClassifyError(e).Code = ErrorCodeAuthFailure)

\* SetLastError stores the error and leaves authFailed as it is
SetLastErrorNoLatch(e) ==
    /\ lastError' = IF e = NilErr THEN NilErr ELSE ClassifyError(e)
    /\ UNCHANGED authFailed

\* no session is ever found expired
isCookieExpiredNever == FALSE

\* the executor gives up on the first failure of the operation
OpFailedNoRetry(c, e) ==
    /\ err' = [err EXCEPT ![c] = e]
    /\ pc' = [pc EXCEPT ![c] = "done"]
    /\ UNCHANGED attempt

\* invalidateCookies leaves the cookie cache as it is
invalidateCookies2Skipped == UNCHANGED cookieCache

\* Close returns the transport error of the logout at once
AfterLogoutEarlyReturn(path) == IF path = "transport" THEN "ret" ELSE "inval1"

\* invalidateCookies leaves the validity flag as it is
invalidateCookies1Skipped == UNCHANGED cookieValid /\ session' = "invalidated"

\* the loop runs one pass too many
loopConditionOneMore(att) == att <= maxRetries + 1

\* the loop runs one pass too few
loopConditionStrict(att) == att < maxRetries

\* a success after a failure returns the failure
OnSuccessStale(lastErr) == lastErr

\* the message counts the retries, not the attempts
ExhaustedRetries(name, lastErr) ==
    Wrap(name, "failed after attempts", maxRetries, lastErr)

\* the context's Done channel is never read as closed
ContextDoneNever(r) == FALSE

IsAuthFailed == authFailed

isCookieValidCached == cookieValid

isRetryableStatusCode(statusCode) == statusCode \in RetryableCodes

\* SetLastError(e): the value stored, and whether it latches authFailed
StoredError(e) ==
    IF e.typ = "nil" THEN NilErr
    ELSE IF AsClientError(e) # NilErr THEN AsClientError(e)
    ELSE ClassifyError(e)

SetLastError(e) ==
    /\ lastError' = StoredError(e)
    /\ authFailed' = IF StoredError(e) # NilErr /\ StoredError(e).Code = ErrorCodeAuthFailure
                     THEN TRUE ELSE authFailed

\* setStatus: qb.mu.Lock(), qb.status = status, qb.mu.Unlock(); it waits while
\* another call holds the lock
setStatus(s) ==
    /\ mu = "free"
    /\ status' = s

\* invalidateCookies, one statement at a time
invalidateCookies1 == cookieValid' = FALSE /\ session' = "invalidated"
invalidateCookies2 == cookieCache' = {}
invalidateCookies3 == setStatus(StatusUnauthorized)

\* a login of c writes the cookie cache, the validity flag or the status
LoginWrote(c, h) == [h EXCEPT ![c].wrote = {"call", "sweep"}]

\* another call's login wrote the session: every other call that was answered
\* 401/403 has seen a foreign login
ForeignWrite(c, h) ==
    [d \in Callers |->
        IF d # c /\ h[d].authAt > 0 THEN [h[d] EXCEPT !.foreign = TRUE] ELSE h[d]]

\* Update has stored the configuration and has since released cookieValidMu
\* (setCookieValid(false)), and the lock of the cookie cache (clear)
UpdatePastFlag == admin.op = "Update" /\ admin.pc \in {"inval2", "inval3"}
UpdatePastCache == admin.op = "Update" /\ admin.pc = "inval3"

\* call c takes a lock: when Update released that lock after its store, the
\* reads of qb.config that follow see the stored configuration
Synced(c, h, released) ==
    [h EXCEPT ![c].unsynced = h[c].unsynced /\ ~released]

\* the values a read of qb.config.RequestTimeout by call c can return: the
\* stored one, and, while the read is unordered with Update's store, the one
\* New stored
RequestTimeoutRead(c) ==
    {config.RequestTimeout}
        \cup (IF hist[c].unsynced THEN {DefaultRequestTimeout} ELSE {})

\* context.WithTimeout(ctx, qb.config.RequestTimeout) for the probe and for the
\* login POST: with a timeout that is not positive the context is done at
\* once and request.Do returns its error without sending anything
CanAnswer(c) == \E t \in RequestTimeoutRead(c) : t > 0

\* context.DeadlineExceeded as request.Do returns it, inside a *url.Error
DeadlineExceeded ==
    URLError(Untyped("context deadline exceeded", 0, {"timeout"}), {})

\* the errors request.Do returns under a context with timeout t
RequestErrors(t) == IF t > 0 THEN TransportErrors ELSE {DeadlineExceeded}

(***************************************************************************)
(* The loop of retryWithBackoff and of retryWithBackoffWithContext.        *)
(***************************************************************************)
\* for attempt := 0; attempt <= qb.retryConfig.MaxRetries; attempt++
loopCondition(att) == att <= maxRetries

\* if attempt < qb.retryConfig.MaxRetries { ... sleep ... }
shouldSleep(att) == att < maxRetries

\* the operation returned nil: what the executor returns (lastErr is the error of
\* the attempt before, nil on the first)
OnSuccess(lastErr) == NilErr

\* the error after the for statement
Exhausted(name, lastErr) ==
    Wrap(name, "failed after attempts", maxRetries + 1, lastErr)

\* the operation of doWithRetry returned e: retryWithBackoff keeps it, sleeps if
\* attempts remain, and goes on to the next pass of the loop
OpFailed(c, e) ==
    /\ err' = [err EXCEPT ![c] = e]
    /\ IF shouldSleep(attempt[c])
       THEN /\ pc' = [pc EXCEPT ![c] = "sleep"]
            /\ UNCHANGED attempt
       ELSE /\ pc' = [pc EXCEPT ![c] = "ensure"]
            /\ attempt' = [attempt EXCEPT ![c] = attempt[c] + 1]

\* ensureLoginWithContext returned e inside the operation of doWithRetry
EnsureFailed(c, e) == OpFailed(c, Wrap("", "failed to ensure login", 0, e))

\* loginWithContext returned e inside the login loop: a permanent error ends
\* the loop, any other is retried while attempts remain
LoginFailed(c, e) ==
    /\ lerr' = [lerr EXCEPT ![c] = e]
    /\ IF IsPermanentError(e)
       THEN /\ EnsureFailed(c, e)
            /\ UNCHANGED lattempt
       ELSE IF shouldSleep(lattempt[c])
       THEN /\ pc' = [pc EXCEPT ![c] = "loginSleep"]
            /\ UNCHANGED <<err, attempt, lattempt>>
       ELSE /\ pc' = [pc EXCEPT ![c] = "loginTop"]
            /\ lattempt' = [lattempt EXCEPT ![c] = lattempt[c] + 1]
            /\ UNCHANGED <<err, attempt>>

(***************************************************************************)
(* One API call: doWithRetry, a step per access to the shared state.       *)
(***************************************************************************)
TypeOK ==
    /\ maxRetries \in Int
    /\ cookieValid \in BOOLEAN
    /\ cookieCache \subseteq SessionCookies
    /\ status \in {StatusInitializing, StatusConnected, StatusUnauthorized,
                   StatusUnaccessible}
    /\ authFailed \in BOOLEAN
    /\ lastError = NilErr \/ lastError.typ = "ClientError"
    /\ lastLoginTime \in {"zero", "now", "old"}
    /\ pc \in [Callers -> {"idle", "ensure", "loginTop", "loginEnter", "probe",
                           "setLastErr", "loginPost", "fails1", "fails2", "ok0", "ok1",
                           "ok2", "ok3", "ok4", "loginSleep", "request", "inval1",
                           "inval2", "sleep", "done"}]
    /\ attempt \in [Callers -> Nat]
    /\ lattempt \in [Callers -> Nat]
    /\ resp \in [Callers -> {0} \cup EndpointStatuses]
    /\ run.pc \in {"top", "auth", "op", "sleep", "done"}
    /\ run.calls \in Nat
    /\ jar \in {"none", "expired", "fresh"}
    /\ session \in {"none", "login", "invalidated"}
    /\ reset \in {"idle", "lastErr", "status"}
    /\ body \in [Callers -> {"none", "full", "drained"}]

\* the Client that New returns
ClientInit ==
    /\ cookieValid = FALSE
    /\ cookieCache = {}
    /\ status = StatusInitializing
    /\ authFailed = FALSE
    /\ lastError = NilErr
    /\ lastLoginTime = "zero"

CallersIdle ==
    /\ pc = [c \in Callers |-> "idle"]
    /\ attempt = [c \in Callers |-> 0]
    /\ lattempt = [c \in Callers |-> 0]
    /\ err = [c \in Callers |-> NilErr]
    /\ lerr = [c \in Callers |-> NilErr]
    /\ resp = [c \in Callers |-> 0]
    /\ hist = [c \in Callers |-> NoHist]

\* the reader an API method builds for its call: nil for a call without a body,
\* strings.NewReader(data.Encode()) for a form post such as AddTorrentLink
NewReader(b) == IF b = "none" THEN "none" ELSE "full"

\* the reader after the transport has written the request body: all is read
ReadAll(b) == IF b = "none" THEN "none" ELSE "drained"

\* the body of the request that request.Do builds from the reader:
\* http.NewRequestWithContext takes what the *strings.Reader has left unread
\* (ContentLength = Len()), which is nothing once an earlier attempt read it
Transmitted(b) == IF b = "drained" THEN "empty" ELSE b

\* an API method calls doWithRetry: retryWithBackoff starts its loop
StartCall(c) ==
    /\ pc[c] \in {"idle", "done"}
    /\ pc' = [pc EXCEPT ![c] = "ensure"]
    /\ attempt' = [attempt EXCEPT ![c] = 0]
    /\ lattempt' = [lattempt EXCEPT ![c] = 0]
    /\ err' = [err EXCEPT ![c] = NilErr]
    /\ lerr' = [lerr EXCEPT ![c] = NilErr]
    /\ resp' = [resp EXCEPT ![c] = 0]
    /\ hist' = [hist EXCEPT ![c] = [NoHist EXCEPT !.latched = authFailed,
                                                  !.wrote = hist[c].wrote,
                                                  !.unsynced = hist[c].unsynced]]
    /\ body' = [body EXCEPT ![c] = NewReader(body[c])]
    /\ UNCHANGED <<run, lifeVars, backoff, classify, jar, session>>
    /\ UNCHANGED clientVars

\* head of the loop of retryWithBackoff; when an attempt remains the operation
\* starts and ensureLoginWithContext reads the cached validity flag, which ends
\* it at once when the flag is set, and otherwise the login loop starts
Ensure(c) ==
    /\ pc[c] = "ensure"
    /\ IF ~loopCondition(attempt[c])
       THEN /\ pc' = [pc EXCEPT ![c] = "done"]
            /\ err' = [err EXCEPT ![c] = Exhausted(ApiLabel, err[c])]
            /\ UNCHANGED <<lattempt, lerr, hist>>
       ELSE /\ pc' = [pc EXCEPT ![c] = IF isCookieValidCached THEN "request"
                                       ELSE "loginTop"]
            /\ lattempt' = [lattempt EXCEPT ![c] = 0]
            /\ lerr' = [lerr EXCEPT ![c] = NilErr]
            /\ hist' = [hist EXCEPT ![c].loggedIn = FALSE,
                                    ![c].authSent = FALSE,
                                    ![c].ensureLatched = authFailed,
                                    ![c].unsynced = @ /\ ~UpdatePastFlag]
            /\ UNCHANGED err
    /\ UNCHANGED <<run, lifeVars, backoff, classify, jar, session, body>>
    /\ UNCHANGED <<clientVars, attempt, resp>>

\* head of the login loop, and the checks before the operation:
\* context.Background() is never done; authFailed is read; then the operation,
\* loginWithContext, is invoked
LoginTop(c) ==
    /\ pc[c] = "loginTop"
    /\ IF ~loopCondition(lattempt[c])
       THEN EnsureFailed(c, Exhausted(LoginLabel, lerr[c]))
       ELSE IF IsAuthFailed
       THEN EnsureFailed(c, AuthPermanentlyFailed)
       ELSE /\ pc' = [pc EXCEPT ![c] = "loginEnter"]
            /\ UNCHANGED <<err, attempt>>
    /\ hist' = [hist EXCEPT ![c].logins =
                    IF loopCondition(lattempt[c]) /\ ~IsAuthFailed
                       /\ hist[c].logins < MaxLoginsCounted
                    THEN hist[c].logins + 1 ELSE hist[c].logins]
    /\ UNCHANGED <<run, lifeVars, backoff, classify, jar, session, body>>
    /\ UNCHANGED <<clientVars, lattempt, lerr, resp>>

\* loginWithContext reads authFailed
LoginEnter(c) ==
    /\ pc[c] = "loginEnter"
    /\ IF IsAuthFailed
       THEN LoginFailed(c, AuthPermanentlyFailed)
       ELSE /\ pc' = [pc EXCEPT ![c] = "probe"]
            /\ UNCHANGED <<err, lerr, attempt, lattempt>>
    /\ UNCHANGED <<run, lifeVars, backoff, classify, jar, session, body>>
    /\ UNCHANGED <<clientVars, resp, hist>>

\* checkAccessibility: the probe is sent and answered with a status below 500
ProbeOk(c) ==
    /\ pc[c] = "probe"
    /\ CanAnswer(c)
    /\ pc' = [pc EXCEPT ![c] = "loginPost"]
    /\ hist' = [hist EXCEPT ![c].sent = TRUE, ![c].authSent = TRUE,
                            ![c].probe = "ok"]
    /\ UNCHANGED <<run, lifeVars, backoff, classify, jar, session, body>>
    /\ UNCHANGED <<clientVars, attempt, lattempt, err, lerr, resp>>

\* faulty variant: a failed probe is recorded and the login goes on to its POST
ProbeFailContinues(c) ==
    /\ pc[c] = "probe"
    /\ CanAnswer(c)
    /\ \E s \in {500, 503} :
          lerr' = [lerr EXCEPT ![c] = NewClientError(ErrorCodeUnknown, FALSE)]
    /\ mu = "free"
    /\ status' = StatusUnaccessible
    /\ pc' = [pc EXCEPT ![c] = "loginPost"]
    /\ hist' = [hist EXCEPT ![c].sent = TRUE, ![c].authSent = TRUE,
                            ![c].probe = "failed",
                            ![c].wrote = {"call", "sweep"}]
    /\ UNCHANGED <<run, lifeVars, backoff, classify, jar, session, body>>
    /\ UNCHANGED <<maxRetries, cookieValid, cookieCache, authFailed, lastError,
                   lastLoginTime, attempt, lattempt, err, resp>>

\* checkAccessibility: the probe fails (request.Do returns an error, or the
\* answer has a status >= 500); setStatus(StatusUnaccessible)
ProbeFail(c) ==
    /\ pc[c] = "probe"
    /\ \E t \in RequestTimeoutRead(c) :
          /\ \E e \in {ClassifyError(x) : x \in RequestErrors(t)}
                    \cup (IF t > 0
                          THEN {classifyHTTPStatusCode(s) : s \in ProbeBadStatuses}
                          ELSE {}) :
                lerr' = [lerr EXCEPT ![c] = e]
          /\ hist' = [hist EXCEPT ![c].sent = @ \/ t > 0,
                                  ![c].authSent = @ \/ t > 0,
                                  ![c].probe = "failed",
                                  ![c].wrote = {"call", "sweep"}]
    /\ setStatus(StatusUnaccessible)
    /\ pc' = [pc EXCEPT ![c] = "setLastErr"]
    /\ UNCHANGED <<run, lifeVars, backoff, classify, jar, session, body>>
    /\ UNCHANGED <<maxRetries, cookieValid, cookieCache, authFailed, lastError,
                   lastLoginTime, attempt, lattempt, err, resp>>

\* SetLastError(clientErr) after a failed probe or login transport error;
\* loginWithContext returns clientErr
LoginSetLastErr(c) ==
    /\ pc[c] = "setLastErr"
    /\ SetLastError(lerr[c])
    /\ LoginFailed(c, lerr[c])
    /\ hist' = [hist EXCEPT ![c].probe = "none"]
    /\ UNCHANGED <<run, lifeVars, backoff, classify, jar, session, body>>
    /\ UNCHANGED <<maxRetries, cookieValid, cookieCache, status, lastLoginTime,
                   resp>>

\* the login POST fails in transport: ClassifyError, setStatus(StatusUnaccessible)
LoginTransportFail(c) ==
    /\ pc[c] = "loginPost"
    /\ \E t \in RequestTimeoutRead(c) :
          \E x \in RequestErrors(t) : lerr' = [lerr EXCEPT ![c] = ClassifyError(x)]
    /\ setStatus(StatusUnaccessible)
    /\ pc' = [pc EXCEPT ![c] = "setLastErr"]
    /\ hist' = LoginWrote(c, hist)
    /\ UNCHANGED <<run, lifeVars, backoff, classify, jar, session, body>>
    /\ UNCHANGED <<maxRetries, cookieValid, cookieCache, authFailed, lastError,
                   lastLoginTime, attempt, lattempt, err, resp>>

\* the login POST is answered with a status other than 200:
\* classifyHTTPStatusCode, SetLastError, return
LoginBadStatus(c) ==
    /\ pc[c] = "loginPost"
    /\ CanAnswer(c)
    /\ \E s \in LoginBadStatuses :
          /\ SetLastError(classifyHTTPStatusCode(s))
          /\ LoginFailed(c, classifyHTTPStatusCode(s))
    /\ hist' = [hist EXCEPT ![c].probe = "none"]
    /\ UNCHANGED <<run, lifeVars, backoff, classify, jar, session, body>>
    /\ UNCHANGED <<maxRetries, cookieValid, cookieCache, status, lastLoginTime,
                   resp>>

\* faulty variant: the cookies of a "Fails." answer are stored in the cache
LoginFailsStoresCookies(c) ==
    /\ pc[c] = "loginPost"
    /\ CanAnswer(c)
    /\ mu = "free"
    /\ status' = StatusUnauthorized
    /\ cookieCache' = cookieCache \cup SessionCookies
    /\ lerr' = [lerr EXCEPT ![c] = NewClientError(ErrorCodeAuthFailure, TRUE)]
    /\ pc' = [pc EXCEPT ![c] = "fails1"]
    /\ hist' = LoginWrote(c, hist)
    /\ UNCHANGED <<run, lifeVars, backoff, classify, jar, session, body>>
    /\ UNCHANGED <<maxRetries, cookieValid, authFailed, lastError,
                   lastLoginTime, attempt, lattempt, err, resp>>

\* the login POST is answered 200 with "Fails." in the body:
\* setStatus(StatusUnauthorized)
LoginFails(c) ==
    /\ pc[c] = "loginPost"
    /\ CanAnswer(c)
    /\ setStatus(StatusUnauthorized)
    /\ lerr' = [lerr EXCEPT ![c] = NewClientError(ErrorCodeAuthFailure, TRUE)]
    /\ pc' = [pc EXCEPT ![c] = "fails1"]
    /\ hist' = LoginWrote(c, hist)
    /\ UNCHANGED <<run, lifeVars, backoff, classify, jar, session, body>>
    /\ UNCHANGED <<maxRetries, cookieValid, cookieCache, authFailed, lastError,
                   lastLoginTime, attempt, lattempt, err, resp>>

\* ... SetLastError(clientErr)
LoginFailsSetLastErr(c) ==
    /\ pc[c] = "fails1"
    /\ SetLastError(lerr[c])
    /\ pc' = [pc EXCEPT ![c] = "fails2"]
    /\ UNCHANGED <<run, lifeVars, backoff, classify, jar, session, body>>
    /\ UNCHANGED <<maxRetries, cookieValid, cookieCache, status, lastLoginTime,
                   attempt, lattempt, err, lerr, resp, hist>>

\* ... setAuthFailed(true), return clientErr
LoginFailsLatch(c) ==
    /\ pc[c] = "fails2"
    /\ authFailed' = TRUE
    /\ LoginFailed(c, lerr[c])
    /\ hist' = [hist EXCEPT ![c].probe = "none"]
    /\ UNCHANGED <<run, lifeVars, backoff, classify, jar, session, body>>
    /\ UNCHANGED <<maxRetries, cookieValid, cookieCache, status, lastError,
                   lastLoginTime, resp>>

\* the login POST is answered 200 without "Fails.": inside request.Do the HTTP
\* client stores the session cookie of the answer in the jar; the body is read
\* and the status and "Fails." are tested afterwards
LoginOk(c) ==
    /\ pc[c] = "loginPost"
    /\ CanAnswer(c)
    /\ jar' = "fresh"
    /\ pc' = [pc EXCEPT ![c] = "ok0"]
    /\ UNCHANGED <<run, lifeVars, backoff, classify, session, body>>
    /\ UNCHANGED <<clientVars, attempt, lattempt, err, lerr, resp, hist>>

\* ... updateCookieCache(resp.Cookies())
LoginUpdateCache(c) ==
    /\ pc[c] = "ok0"
    /\ session' = "login"
    /\ cookieCache' = cookieCache \cup SessionCookies
    /\ pc' = [pc EXCEPT ![c] = "ok1"]
    /\ hist' = Synced(c, ForeignWrite(c, LoginWrote(c, hist)), UpdatePastCache)
    /\ UNCHANGED <<run, lifeVars, backoff, classify, jar, body>>
    /\ UNCHANGED <<maxRetries, cookieValid, status, authFailed, lastError,
                   lastLoginTime, attempt, lattempt, err, lerr, resp>>

\* faulty variant: the successful login leaves the validity flag as it is
LoginSetValidSkipped(c) ==
    /\ pc[c] = "ok1"
    /\ pc' = [pc EXCEPT ![c] = "ok2"]
    /\ hist' = ForeignWrite(c, LoginWrote(c, hist))
    /\ UNCHANGED <<run, lifeVars, backoff, classify, jar, session, body>>
    /\ UNCHANGED <<maxRetries, cookieValid, cookieCache, status, authFailed,
                   lastError, lastLoginTime, attempt, lattempt, err, lerr, resp>>

\* ... setCookieValid(true)
LoginSetValid(c) ==
    /\ pc[c] = "ok1"
    /\ cookieValid' = TRUE
    /\ pc' = [pc EXCEPT ![c] = "ok2"]
    /\ hist' = Synced(c, ForeignWrite(c, LoginWrote(c, hist)), UpdatePastFlag)
    /\ UNCHANGED <<run, lifeVars, backoff, classify, jar, session, body>>
    /\ UNCHANGED <<maxRetries, cookieCache, status, authFailed, lastError,
                   lastLoginTime, attempt, lattempt, err, lerr, resp>>

\* ... qb.lastLoginTime = time.Now()
LoginSetTime(c) ==
    /\ pc[c] = "ok2"
    /\ lastLoginTime' = "now"
    /\ pc' = [pc EXCEPT ![c] = "ok3"]
    /\ UNCHANGED <<run, lifeVars, backoff, classify, jar, session, body>>
    /\ UNCHANGED <<maxRetries, cookieValid, cookieCache, status, authFailed,
                   lastError, attempt, lattempt, err, lerr, resp, hist>>

\* ... setStatus(StatusConnected)
LoginSetConnected(c) ==
    /\ pc[c] = "ok3"
    /\ setStatus(StatusConnected)
    /\ pc' = [pc EXCEPT ![c] = "ok4"]
    /\ hist' = LoginWrote(c, hist)
    /\ UNCHANGED <<run, lifeVars, backoff, classify, jar, session, body>>
    /\ UNCHANGED <<maxRetries, cookieValid, cookieCache, authFailed, lastError,
                   lastLoginTime, attempt, lattempt, err, lerr, resp>>

\* faulty variant: after the login the attempt reads the validity flag again and
\* fails when a sweep has cleared it
LoginDoneRechecks(c) ==
    /\ pc[c] = "ok4"
    /\ SetLastError(NilErr)
    /\ IF cookieValid
       THEN /\ pc' = [pc EXCEPT ![c] = "request"]
            /\ UNCHANGED <<err, attempt>>
       ELSE OpFailed(c, Untyped("session lost", 0, {}))
    /\ hist' = [hist EXCEPT ![c].loggedIn = TRUE, ![c].probe = "none"]
    /\ UNCHANGED <<run, lifeVars, backoff, classify, jar, session, body>>
    /\ UNCHANGED <<maxRetries, cookieValid, cookieCache, status, lastLoginTime,
                   lattempt, lerr, resp>>

\* ... SetLastError(nil), return nil: the login loop and ensureLoginWithContext
\* return nil
LoginDone(c) ==
    /\ pc[c] = "ok4"
    /\ SetLastError(NilErr)
    /\ pc' = [pc EXCEPT ![c] = "request"]
    /\ hist' = [hist EXCEPT ![c].loggedIn = TRUE, ![c].probe = "none"]
    /\ UNCHANGED <<run, lifeVars, backoff, classify, jar, session, body>>
    /\ UNCHANGED <<maxRetries, cookieValid, cookieCache, status, lastLoginTime,
                   attempt, lattempt, err, lerr, resp>>

\* the backoff sleep of the login loop ends (the context is never done)
LoginSleep(c) ==
    /\ pc[c] = "loginSleep"
    /\ lattempt' = [lattempt EXCEPT ![c] = lattempt[c] + 1]
    /\ pc' = [pc EXCEPT ![c] = "loginTop"]
    /\ UNCHANGED <<run, lifeVars, backoff, classify, jar, session, body>>
    /\ UNCHANGED <<clientVars, attempt, err, lerr, resp, hist>>

\* request.Do sends the endpoint request with the cookie the jar holds now
RequestSend(c) ==
    /\ pc[c] = "request"
    /\ hist[c].inflight = "none"
    /\ jar # "none"
    /\ hist' = [hist EXCEPT ![c].inflight = jar]
    /\ UNCHANGED <<run, lifeVars, backoff, classify, jar, session, body>>
    /\ UNCHANGED <<clientVars, pc, attempt, lattempt, err, lerr, resp>>

\* the endpoint request fails in transport: resp is nil, the error is returned
RequestTransportFail(c) ==
    /\ pc[c] = "request"
    /\ \E t \in TransportErrors : OpFailed(c, t)
    /\ resp' = [resp EXCEPT ![c] = 0]
    /\ hist' = [hist EXCEPT ![c].sent = TRUE,
                            ![c].inflight = "none",
                                  ![c].requests = hist[c].requests + 1,
                                  ![c].bodies = hist[c].bodies \cup {Transmitted(body[c])}]
    /\ \E b \in {body[c], ReadAll(body[c])} : body' = [body EXCEPT ![c] = b]
    /\ UNCHANGED <<run, lifeVars, backoff, classify, jar, session>>
    /\ UNCHANGED <<clientVars, lattempt, lerr>>

\* the endpoint request is answered 401 or 403: invalidateCookies starts with
\* setCookieValid(false)
RequestAuthError(c) ==
    /\ pc[c] = "request"
    /\ \E s \in EndpointStatuses \cap {401, 403} :
          /\ resp' = [resp EXCEPT ![c] = s]
          /\ hist' = [hist EXCEPT ![c].sent = TRUE,
                                  ![c].inflight = "none",
                                  ![c].requests = hist[c].requests + 1,
                                  ![c].bodies = hist[c].bodies \cup {Transmitted(body[c])},
                                  ![c].denied = hist[c].denied + 1,
                                  ![c].authAt = attempt[c] + 1,
                                  ![c].foreign = FALSE,
                                  ![c].healed = Healed(c, s),
                                  ![c].unsynced = @ /\ ~UpdatePastFlag]
    /\ invalidateCookies1
    /\ pc' = [pc EXCEPT ![c] = "inval1"]
    /\ body' = [body EXCEPT ![c] = ReadAll(body[c])]
    /\ UNCHANGED <<run, lifeVars, backoff, classify, jar>>
    /\ UNCHANGED <<maxRetries, cookieCache, status, authFailed, lastError,
                   lastLoginTime, attempt, lattempt, err, lerr>>

\* ... qb.cookieCache.clear()
InvalidateClear(c) ==
    /\ pc[c] = "inval1"
    /\ invalidateCookies2
    /\ pc' = [pc EXCEPT ![c] = "inval2"]
    /\ hist' = Synced(c, hist, UpdatePastCache)
    /\ UNCHANGED <<run, lifeVars, backoff, classify, jar, session, body>>
    /\ UNCHANGED <<maxRetries, cookieValid, status, authFailed, lastError,
                   lastLoginTime, attempt, lattempt, err, lerr, resp>>

\* ... setStatus(StatusUnauthorized); the operation returns
\* "authentication error: status code <resp>"
InvalidateStatus(c) ==
    /\ pc[c] = "inval2"
    /\ invalidateCookies3
    /\ OpFailed(c, Untyped("authentication error: status code", resp[c], {}))
    /\ UNCHANGED <<run, lifeVars, backoff, classify, jar, session, body>>
    /\ UNCHANGED <<maxRetries, cookieValid, cookieCache, authFailed, lastError,
                   lastLoginTime, lattempt, lerr, resp, hist>>

\* the endpoint request is answered with a retryable status
RequestRetryable(c) ==
    /\ pc[c] = "request"
    /\ \E s \in EndpointStatuses \ {401, 403} :
          /\ isRetryableStatusCode(s)
          /\ resp' = [resp EXCEPT ![c] = s]
          /\ OpFailed(c, Untyped("retryable status code", s, {}))
          /\ hist' = [hist EXCEPT ![c].sent = TRUE, ![c].healed = Healed(c, s),
                                  ![c].inflight = "none",
                                  ![c].requests = hist[c].requests + 1,
                                  ![c].bodies = hist[c].bodies \cup {Transmitted(body[c])}]
    /\ body' = [body EXCEPT ![c] = ReadAll(body[c])]
    /\ UNCHANGED <<run, lifeVars, backoff, classify, jar, session>>
    /\ UNCHANGED <<clientVars, lattempt, lerr>>

\* the endpoint request is answered with any other status: the operation and
\* retryWithBackoff return nil
RequestFinal(c) ==
    /\ pc[c] = "request"
    /\ \E s \in EndpointStatuses \ {401, 403} :
          /\ ~isRetryableStatusCode(s)
          /\ resp' = [resp EXCEPT ![c] = s]
          /\ hist' = [hist EXCEPT ![c].sent = TRUE, ![c].healed = Healed(c, s),
                                  ![c].inflight = "none",
                                  ![c].requests = hist[c].requests + 1,
                                  ![c].bodies = hist[c].bodies \cup {Transmitted(body[c])}]
    /\ err' = [err EXCEPT ![c] = OnSuccess(err[c])]
    /\ pc' = [pc EXCEPT ![c] = "done"]
    /\ body' = [body EXCEPT ![c] = ReadAll(body[c])]
    /\ UNCHANGED <<run, lifeVars, backoff, classify, jar, session>>
    /\ UNCHANGED <<clientVars, attempt, lattempt, lerr>>

\* time.Sleep(delay) of retryWithBackoff ends: the next pass of the loop
Sleep(c) ==
    /\ pc[c] = "sleep"
    /\ attempt' = [attempt EXCEPT ![c] = attempt[c] + 1]
    /\ pc' = [pc EXCEPT ![c] = "ensure"]
    /\ UNCHANGED <<run, lifeVars, backoff, classify, jar, session, body>>
    /\ UNCHANGED <<clientVars, lattempt, err, lerr, resp, hist>>

(***************************************************************************)
(* Exported operations another goroutine may call at any time.             *)
(***************************************************************************)
\* the errors a user hands to the exported SetLastError
UserErrors == {NilErr, NewClientError(ErrorCodeAuthFailure, TRUE),
               Untyped("connection timeout", 0, {"timeout"})}

UserSetLastError ==
    /\ \E e \in UserErrors : SetLastError(e)
    /\ UNCHANGED <<run, lifeVars, backoff, classify, jar, session, body>>
    /\ UNCHANGED <<maxRetries, cookieValid, cookieCache, status, lastLoginTime,
                   callVars>>

\* ResetAuthFailure: setAuthFailed(false), under authFailedMu
ResetAuthFailure ==
    /\ reset = "idle"
    /\ authFailed' = FALSE
    /\ reset' = "lastErr"
    /\ hist' = [c \in Callers |->
                   [hist[c] EXCEPT !.latched = FALSE, !.ensureLatched = FALSE]]
    /\ UNCHANGED <<run, mu, config, timeout, sweep, admin, backoff, classify, jar,
                   session, body>>
    /\ UNCHANGED <<maxRetries, cookieValid, cookieCache, status, lastError,
                   lastLoginTime, pc, attempt, lattempt, err, lerr, resp>>

\* ... SetLastError(nil), under lastErrorMu
ResetSetLastError ==
    /\ reset = "lastErr"
    /\ SetLastError(NilErr)
    /\ reset' = "status"
    /\ UNCHANGED <<run, mu, config, timeout, sweep, admin, backoff, classify, jar,
                   session, body>>
    /\ UNCHANGED <<maxRetries, cookieValid, cookieCache, status, lastLoginTime,
                   callVars>>

\* ... setStatus(StatusInitializing), which waits while a call of Update holds
\* qb.mu
ResetSetStatus ==
    /\ reset = "status"
    /\ setStatus(StatusInitializing)
    /\ reset' = "idle"
    /\ UNCHANGED <<run, mu, config, timeout, sweep, admin, backoff, classify, jar,
                   session, body>>
    /\ UNCHANGED <<maxRetries, cookieValid, cookieCache, authFailed, lastError,
                   lastLoginTime, callVars>>

Reset == ResetAuthFailure \/ ResetSetLastError \/ ResetSetStatus

\* the program that called the API method raises its cancellation signal, or
\* its timeout passes, while the call is in a backoff sleep or in its endpoint
\* request. The API methods and doWithRetry take no context, the sleep is
\* time.Sleep and the request runs under context.Background(): no statement of
\* the call reads the signal.
CallerCancels(c) ==
    /\ pc[c] \in {"sleep", "request"}
    /\ hist[c].cancelAt = 0
    /\ hist' = [hist EXCEPT ![c].cancelAt = attempt[c] + 1]
    /\ UNCHANGED <<clientVars, pc, attempt, lattempt, err, lerr, resp, run,
                   lifeVars, backoff, classify, jar, session, body>>

Call(c) ==
    \/ StartCall(c) \/ Ensure(c) \/ LoginTop(c) \/ LoginEnter(c)
    \/ ProbeOk(c) \/ ProbeFail(c) \/ LoginSetLastErr(c)
    \/ LoginTransportFail(c) \/ LoginBadStatus(c)
    \/ LoginFails(c) \/ LoginFailsSetLastErr(c) \/ LoginFailsLatch(c)
    \/ LoginOk(c) \/ LoginUpdateCache(c) \/ LoginSetValid(c) \/ LoginSetTime(c)
    \/ LoginSetConnected(c)
    \/ LoginDone(c) \/ LoginSleep(c)
    \/ RequestTransportFail(c) \/ RequestAuthError(c) \/ InvalidateClear(c)
    \/ InvalidateStatus(c) \/ RequestRetryable(c) \/ RequestFinal(c) \/ Sleep(c)

(***************************************************************************)
(* Update, Close and a direct call of invalidateCookies, made by one       *)
(* goroutine, a step per access to the shared state.                       *)
(*   op      the call: "Update", "Close", "invalidateCookies"              *)
(*   pc      "logout" Close sends the logout request; "inval1", "inval2",  *)
(*           "inval3" before each statement of invalidateCookies; "ret"    *)
(*           the call has returned                                         *)
(*   path    the way Close took                                            *)
(*   ret     the error Close returns                                       *)
(*   closed  a call of Close has returned (history)                        *)
(*   swept   a sweep that ticked after a Close returned has changed the    *)
(*           validity flag, the cookie cache or the status (history)       *)
(*   cookies resp.Cookies() of the answer isCookieValid holds               *)
(***************************************************************************)
\* Config.BaseURL of a configured client
BaseURL == "http://localhost:8080"

\* the Config values handed to New and to Update: jar is unexported, so a
\* Config built outside the package has none
RequestTimeouts == {0, 60}
UpdateConfigs == [BaseURL : {BaseURL}, jar : BOOLEAN,
                  RequestTimeout : RequestTimeouts]

\* what the server does to the logout request
LogoutBadStatuses == {403, 500}

AdminIdle == [op |-> "none", pc |-> "idle", path |-> "none", ret |-> NilErr,
              closed |-> FALSE, swept |-> FALSE, cookies |-> {}]

SweepIdle == [pc |-> "wait", late |-> FALSE]

\* New: client.Timeout is config.RequestTimeout after the defaults; the sweep
\* goroutine is started
LifeInit ==
    /\ mu = "free"
    /\ config = [BaseURL |-> BaseURL, jar |-> TRUE,
                 RequestTimeout |-> DefaultRequestTimeout]
    /\ timeout = DefaultRequestTimeout
    /\ sweep = SweepIdle
    /\ admin = AdminIdle
    /\ reset = "idle"

\* no call of the goroutine is under way
AdminReady == admin.pc \in {"idle", "ret"}

\* Update has reached setStatus inside invalidateCookies and waits for qb.mu,
\* which it holds itself
AdminStuck == admin.op = "Update" /\ admin.pc = "inval3" /\ mu = "Update"

\* a call of Update, Close or invalidateCookies ("call") or a sweep of an
\* expired session ("sweep") starts: no login has written the session since
ClearWrote(h, who) ==
    [c \in Callers |-> [h[c] EXCEPT !.wrote = h[c].wrote \ {who}]]

\* time.Since(qb.lastLoginTime) > CookieExpiryDuration: "now" is a login time
\* within the last 24 hours, "old" an earlier one, "zero" the zero time
isCookieExpired == lastLoginTime # "now"

\* Close: qb.config.BaseURL == "" || qb.config.jar == nil
NotConfigured == config.BaseURL = "" \/ ~config.jar

\* Close: the pc after the logout request was answered or failed; every way
\* goes through invalidateCookies
AfterLogout(path) == "inval1"

\* a direct call of invalidateCookies (TestInvalidateCookiesOnAuthError)
CallInvalidateCookies ==
    /\ AdminReady
    /\ admin' = [admin EXCEPT !.op = "invalidateCookies", !.pc = "inval1",
                              !.path = "none", !.ret = NilErr]
    /\ hist' = ClearWrote(hist, "call")
    /\ UNCHANGED <<clientVars, pc, attempt, lattempt, err, lerr, resp, run, mu,
                   config, timeout, sweep, reset, backoff, classify, jar, session, body>>

\* Close reads the configuration: a client that is not fully configured is
\* invalidated without a logout request
CloseStart ==
    /\ AdminReady
    /\ admin' = [admin EXCEPT !.op = "Close",
                              !.pc = IF NotConfigured
                                     THEN AfterLogout("unconfigured")
                                     ELSE "logout",
                              !.path = IF NotConfigured THEN "unconfigured"
                                       ELSE "none",
                              !.ret = NilErr]
    /\ hist' = ClearWrote(hist, "call")
    /\ UNCHANGED <<clientVars, pc, attempt, lattempt, err, lerr, resp, run, mu,
                   config, timeout, sweep, reset, backoff, classify, jar, session, body>>

\* Close: request.Do of the logout fails in transport
CloseTransportFail ==
    /\ admin.op = "Close" /\ admin.pc = "logout"
    /\ \E t \in TransportErrors :
          admin' = [admin EXCEPT !.pc = AfterLogout("transport"),
                                 !.path = "transport", !.ret = t]
    /\ UNCHANGED <<clientVars, callVars, run, mu, config, timeout, sweep,
                   reset, backoff, classify, jar, session, body>>

\* Close: the logout is answered with a status other than 200
CloseBadStatus ==
    /\ admin.op = "Close" /\ admin.pc = "logout"
    /\ \E s \in LogoutBadStatuses :
          admin' = [admin EXCEPT !.pc = AfterLogout("status"),
                                 !.path = "status",
                                 !.ret = Untyped("logout failed with status", s,
                                                 {})]
    /\ UNCHANGED <<clientVars, callVars, run, mu, config, timeout, sweep,
                   reset, backoff, classify, jar, session, body>>

\* Close: the logout is answered 200
CloseOk ==
    /\ admin.op = "Close" /\ admin.pc = "logout"
    /\ admin' = [admin EXCEPT !.pc = AfterLogout("ok"), !.path = "ok"]
    /\ UNCHANGED <<clientVars, callVars, run, mu, config, timeout, sweep,
                   reset, backoff, classify, jar, session, body>>

\* Update: qb.mu.Lock(), qb.config = config, and client.Timeout when the new
\* RequestTimeout is positive; the lock is held until Update returns
UpdateLock ==
    /\ AdminReady
    /\ mu = "free"
    /\ \E cfg \in UpdateConfigs :
          /\ config' = cfg
          /\ timeout' = IF cfg.RequestTimeout > 0 THEN cfg.RequestTimeout
                        ELSE timeout
    /\ mu' = "Update"
    /\ admin' = [admin EXCEPT !.op = "Update", !.pc = "inval1",
                              !.path = "none", !.ret = NilErr]
    /\ hist' = [c \in Callers |->
                   [ClearWrote(hist, "call")[c] EXCEPT !.unsynced = TRUE]]
    /\ UNCHANGED <<clientVars, pc, attempt, lattempt, err, lerr, resp, run,
                   sweep, reset, backoff, classify, jar, session, body>>

\* invalidateCookies: setCookieValid(false)
AdminInvalidate1 ==
    /\ admin.pc = "inval1"
    /\ invalidateCookies1
    /\ admin' = [admin EXCEPT !.pc = "inval2"]
    /\ UNCHANGED <<maxRetries, cookieCache, status, authFailed, lastError,
                   lastLoginTime, callVars, run, mu, config, timeout, sweep,
                   reset, backoff, classify, jar, body>>

\* invalidateCookies: qb.cookieCache.clear()
AdminInvalidate2 ==
    /\ admin.pc = "inval2"
    /\ invalidateCookies2
    /\ admin' = [admin EXCEPT !.pc = "inval3"]
    /\ UNCHANGED <<maxRetries, cookieValid, status, authFailed, lastError,
                   lastLoginTime, callVars, run, mu, config, timeout, sweep,
                   reset, backoff, classify, jar, session, body>>

\* invalidateCookies: setStatus(StatusUnauthorized), which takes qb.mu; then
\* the call returns. Inside Update the lock is already held by Update itself,
\* and setStatus waits for it for ever.
AdminInvalidate3 ==
    /\ admin.pc = "inval3"
    /\ invalidateCookies3
    /\ admin' = [admin EXCEPT !.pc = "ret",
                              !.closed = admin.closed \/ admin.op = "Close"]
    /\ UNCHANGED <<maxRetries, cookieValid, cookieCache, authFailed, lastError,
                   lastLoginTime, callVars, run, mu, config, timeout, sweep,
                   reset, backoff, classify, jar, session, body>>

\* isCookieExpired as a goroutine sees it: lastLoginTime is read without a
\* lock, and while a login is writing it (also without a lock) the read may
\* return the old value, the new one, or a mix of their words
SweepSees ==
    IF \E c \in Callers : pc[c] = "ok2" THEN BOOLEAN ELSE {isCookieExpired}

\* accesses to lastLoginTime that hold no lock and are enabled: the login's write
\* (qb.lastLoginTime = time.Now()), and the reads in isCookieExpired that the
\* sweep goroutine makes at its next tick and isCookieValid after the cached flag
TimeWriters == {c \in Callers : pc[c] = "ok2"}

TimeReaders ==
    (IF sweep.pc = "wait" THEN {"sweep"} ELSE {})
        \cup (IF admin.op = "isCookieValid" /\ admin.pc = "expiry"
              THEN {"isCookieValid"} ELSE {})

\* isCookieValid reads the cached flag: a set flag ends the call with true
IsCookieValidStart ==
    /\ AdminReady
    /\ admin' = [admin EXCEPT
                    !.op = "isCookieValid",
                    !.pc = IF isCookieValidCached THEN "ret" ELSE "expiry",
                    !.path = IF isCookieValidCached THEN "cached" ELSE "none",
                    !.ret = NilErr]
    /\ UNCHANGED <<clientVars, callVars, run, mu, config, timeout, sweep, reset,
                   backoff, classify, jar, session, body>>

\* ... isCookieExpired is read; when the session is not expired the validation
\* request is sent
IsCookieValidExpiry ==
    /\ admin.op = "isCookieValid" /\ admin.pc = "expiry"
    /\ \E expired \in SweepSees :
          admin' = [admin EXCEPT !.pc = IF expired THEN "clear" ELSE "validate"]
    /\ UNCHANGED <<clientVars, callVars, run, mu, config, timeout, sweep, reset,
                   backoff, classify, jar, session, body>>

\* ... the session is expired: setCookieValid(false), return false
IsCookieValidExpired ==
    /\ admin.op = "isCookieValid" /\ admin.pc = "clear"
    /\ cookieValid' = FALSE
    /\ session' = "invalidated"
    /\ admin' = [admin EXCEPT !.pc = "ret", !.path = "expired"]
    /\ UNCHANGED <<maxRetries, cookieCache, status, authFailed, lastError,
                   lastLoginTime, callVars, run, mu, config, timeout, sweep, reset,
                   backoff, classify, jar, body>>

\* isCookieValid: the validation request fails, or is answered with a status
\* other than 200: setCookieValid(false), return false
IsCookieValidFail ==
    /\ admin.op = "isCookieValid" /\ admin.pc = "validate"
    /\ cookieValid' = FALSE
    /\ session' = "invalidated"
    /\ admin' = [admin EXCEPT !.pc = "ret", !.path = "failed"]
    /\ UNCHANGED <<maxRetries, cookieCache, status, authFailed, lastError,
                   lastLoginTime, callVars, run, mu, config, timeout, sweep, reset,
                   backoff, classify, jar, body>>

\* isCookieValid: the validation request is answered 200; inside request.Do
\* the HTTP client, which was given the jar, stores the cookies of the answer
\* in it
IsCookieValidOk ==
    /\ admin.op = "isCookieValid" /\ admin.pc = "validate"
    /\ ~NotConfigured
    /\ \E cookies \in SUBSET SessionCookies :
          /\ jar' = IF cookies # {} THEN "fresh" ELSE jar
          /\ admin' = [admin EXCEPT !.pc = "cache", !.cookies = cookies]
    /\ UNCHANGED <<clientVars, callVars, run, mu, config, timeout, sweep, reset,
                   backoff, classify, session, body>>

\* ... updateCookieCache(resp.Cookies())
IsCookieValidUpdateCache ==
    /\ admin.op = "isCookieValid" /\ admin.pc = "cache"
    /\ cookieCache' = cookieCache \cup admin.cookies
    /\ admin' = [admin EXCEPT !.pc = "valid", !.cookies = {}]
    /\ UNCHANGED <<maxRetries, cookieValid, status, authFailed, lastError,
                   lastLoginTime, callVars, run, mu, config, timeout, sweep, reset,
                   backoff, classify, jar, session, body>>

\* ... setCookieValid(true), return true
IsCookieValidSetValid ==
    /\ admin.op = "isCookieValid" /\ admin.pc = "valid"
    /\ cookieValid' = TRUE
    /\ admin' = [admin EXCEPT !.pc = "ret", !.path = "validated"]
    /\ UNCHANGED <<maxRetries, cookieCache, status, authFailed, lastError,
                   lastLoginTime, callVars, run, mu, config, timeout, sweep, reset,
                   backoff, classify, jar, session, body>>

(***************************************************************************)
(* startCookieCleanup: the goroutine New starts; nothing stops it.         *)
(*   pc    "wait" for the next tick; "valid", "clear", "status" before     *)
(*         each statement of the invalidation                              *)
(*   late  the tick came after a Close had returned (history)              *)
(***************************************************************************)
\* more than CookieExpiryDuration passes since the last login
TimePasses ==
    /\ lastLoginTime = "now"
    /\ lastLoginTime' = "old"
    /\ UNCHANGED <<maxRetries, cookieValid, cookieCache, status, authFailed,
                   lastError, callVars, run, lifeVars, backoff, classify, jar, session, body>>

\* a sweep by the goroutine changes a value after a Close has returned
LateSweep(changes) ==
    [admin EXCEPT !.swept = admin.swept \/ (sweep.late /\ changes)]

\* the ticker fires: isCookieExpired is read
SweepTick ==
    /\ sweep.pc = "wait"
    /\ \E expired \in SweepSees :
          /\ sweep' = [pc |-> IF expired THEN "valid" ELSE "wait",
                       late |-> admin.closed]
          /\ hist' = IF expired THEN ClearWrote(hist, "sweep") ELSE hist
    /\ UNCHANGED <<clientVars, pc, attempt, lattempt, err, lerr, resp, run, mu,
                   config, timeout, admin, reset, backoff, classify, jar, session, body>>

\* ... setCookieValid(false)
SweepSetValid ==
    /\ sweep.pc = "valid"
    /\ cookieValid' = FALSE
    /\ session' = "invalidated"
    /\ sweep' = [sweep EXCEPT !.pc = "clear"]
    /\ admin' = LateSweep(cookieValid)
    /\ UNCHANGED <<maxRetries, cookieCache, status, authFailed, lastError,
                   lastLoginTime, callVars, run, mu, config, timeout, reset, backoff, classify, jar, body>>

\* ... qb.cookieCache.clear()
SweepClear ==
    /\ sweep.pc = "clear"
    /\ cookieCache' = {}
    /\ sweep' = [sweep EXCEPT !.pc = "status"]
    /\ admin' = LateSweep(cookieCache # {})
    /\ UNCHANGED <<maxRetries, cookieValid, status, authFailed, lastError,
                   lastLoginTime, callVars, run, mu, config, timeout, reset, backoff, classify, jar, session, body>>

\* ... setStatus(StatusUnauthorized)
SweepStatus ==
    /\ sweep.pc = "status"
    /\ setStatus(StatusUnauthorized)
    /\ sweep' = [sweep EXCEPT !.pc = "wait"]
    /\ admin' = LateSweep(status # StatusUnauthorized)
    /\ UNCHANGED <<maxRetries, cookieValid, cookieCache, authFailed, lastError,
                   lastLoginTime, callVars, run, mu, config, timeout, reset, backoff, classify, jar, session, body>>

(***************************************************************************)
(* The executors under a scripted operation, as the tests drive them       *)
(* (TestRetryWithBackoff, TestRetryWithBackoffFailure): the operation      *)
(* returns opErr on its first k invocations and nil afterwards.            *)
(*   mode     "plain" retryWithBackoff, "ctx" retryWithBackoffWithContext  *)
(*   pc       "top" loop head, "sleep" backoff sleep, "done" returned      *)
(*   attempt  the loop index                                               *)
(*   lastErr  lastErr of the loop; at "done" the returned error            *)
(*   calls    invocations of the operation so far                          *)
(*   sleeps   backoff sleeps started so far                                *)
(*   ctxErr   nil while the context is live, else ctx.Err()                *)
(*   cancelPc, cancelCalls   where the executor stood and how often the    *)
(*            operation had run when the context was cancelled: "top"      *)
(*            before an attempt, "auth" and "op" inside an attempt (after  *)
(*            its select, before the operation returned), "sleep" in a     *)
(*            backoff sleep, "exit" after the last attempt, "done" after   *)
(*            the return, "none" never                                     *)
(***************************************************************************)
ScriptLabel == "test"

\* the errors a scripted operation returns
ScriptErrors == {Untyped("simulated error", 0, {}),
                 NewClientError(ErrorCodeTimeout, FALSE),
                 Untyped("no such host", 0, {"dns"}),
                 NewClientError(ErrorCodeAuthFailure, TRUE)}

\* ctx.Err() of a cancelled context: context.Canceled, context.DeadlineExceeded
ContextErrors == {Untyped("context canceled", 0, {"timeout"}),
                  Untyped("context deadline exceeded", 0, {"timeout"})}

RunIdle == [mode |-> "none", pc |-> "done", attempt |-> 0, lastErr |-> NilErr,
            calls |-> 0, sleeps |-> 0, k |-> 0, opErr |-> NilErr,
            ctxErr |-> NilErr, cancelPc |-> "none", cancelCalls |-> 0]

\* select { case <-ctx.Done(): ... }: the context's Done channel is closed
ContextDone(r) == r.ctxErr # NilErr

\* operation(): the scripted operation's result on invocation number r.calls + 1
Operation(r) == IF r.calls < r.k THEN r.opErr ELSE NilErr

\* where an executor at r stands for a cancellation that arrives now
CancelPoint(r) ==
    IF r.pc = "top" /\ ~loopCondition(r.attempt) THEN "exit" ELSE r.pc

\* the operation returned e # nil and the executor retries: lastErr = err, then
\* the sleep if attempts remain, else the next pass of the loop
RunFailed(r, e) ==
    IF shouldSleep(r.attempt)
    THEN [r EXCEPT !.pc = "sleep", !.lastErr = e, !.calls = r.calls + 1,
                   !.sleeps = r.sleeps + 1]
    ELSE [r EXCEPT !.pc = "top", !.lastErr = e, !.calls = r.calls + 1,
                   !.attempt = r.attempt + 1]

\* retryWithBackoff: the loop head and one pass through the loop body up to the
\* sleep
RunAttempt ==
    /\ run.mode = "plain" /\ run.pc = "top"
    /\ IF ~loopCondition(run.attempt)
       THEN run' = [run EXCEPT !.pc = "done",
                               !.lastErr = Exhausted(ScriptLabel, run.lastErr)]
       ELSE IF Operation(run) = NilErr
       THEN run' = [run EXCEPT !.pc = "done", !.lastErr = OnSuccess(run.lastErr),
                               !.calls = run.calls + 1]
       ELSE run' = RunFailed(run, Operation(run))
    /\ UNCHANGED <<clientVars, callVars, lifeVars, backoff, classify, jar, session, body>>

\* retryWithBackoff: time.Sleep(delay) returns
RunSleep ==
    /\ run.mode = "plain" /\ run.pc = "sleep"
    /\ run' = [run EXCEPT !.pc = "top", !.attempt = run.attempt + 1]
    /\ UNCHANGED <<clientVars, callVars, lifeVars, backoff, classify, jar, session, body>>

\* retryWithBackoffWithContext: the loop head and the select on ctx.Done()
\* before the attempt
RunSelect ==
    /\ run.mode = "ctx" /\ run.pc = "top"
    /\ IF ~loopCondition(run.attempt)
       THEN run' = [run EXCEPT !.pc = "done",
                               !.lastErr = Exhausted(ScriptLabel, run.lastErr)]
       ELSE IF ContextDone(run)
       THEN run' = [run EXCEPT !.pc = "done",
                               !.lastErr = Wrap(ScriptLabel, "cancelled", 0, run.ctxErr)]
       ELSE run' = [run EXCEPT !.pc = "auth"]
    /\ UNCHANGED <<clientVars, callVars, lifeVars, backoff, classify, jar, session, body>>

\* ... qb.IsAuthFailed() is read
RunAuthCheck ==
    /\ run.mode = "ctx" /\ run.pc = "auth"
    /\ IF IsAuthFailed
       THEN run' = [run EXCEPT !.pc = "done", !.lastErr = AuthPermanentlyFailed]
       ELSE run' = [run EXCEPT !.pc = "op"]
    /\ UNCHANGED <<clientVars, callVars, lifeVars, backoff, classify, jar, session, body>>

\* ... operation() is invoked and returns: nil ends the call, a permanent error
\* is returned as it is, any other is kept and retried
RunOperation ==
    /\ run.mode = "ctx" /\ run.pc = "op"
    /\ IF Operation(run) = NilErr
       THEN run' = [run EXCEPT !.pc = "done", !.lastErr = OnSuccess(run.lastErr),
                               !.calls = run.calls + 1]
       ELSE IF IsPermanentError(Operation(run))
       THEN run' = [run EXCEPT !.pc = "done", !.lastErr = Operation(run),
                               !.calls = run.calls + 1]
       ELSE run' = RunFailed(run, Operation(run))
    /\ UNCHANGED <<clientVars, callVars, lifeVars, backoff, classify, jar, session, body>>

\* retryWithBackoffWithContext: select, case <-time.After(delay)
RunTimer ==
    /\ run.mode = "ctx" /\ run.pc = "sleep"
    /\ run' = [run EXCEPT !.pc = "top", !.attempt = run.attempt + 1]
    /\ UNCHANGED <<clientVars, callVars, lifeVars, backoff, classify, jar, session, body>>

\* retryWithBackoffWithContext: select, case <-ctx.Done()
RunCancelled ==
    /\ run.mode = "ctx" /\ run.pc = "sleep"
    /\ ContextDone(run)
    /\ run' = [run EXCEPT !.pc = "done",
                          !.lastErr = Wrap(ScriptLabel, "cancelled during retry", 0,
                                           run.ctxErr)]
    /\ UNCHANGED <<clientVars, callVars, lifeVars, backoff, classify, jar, session, body>>

\* the caller cancels the context, or its deadline passes
Cancel ==
    /\ run.mode = "ctx" /\ run.ctxErr = NilErr
    /\ \E e \in ContextErrors :
          run' = [run EXCEPT !.ctxErr = e, !.cancelPc = CancelPoint(run),
                             !.cancelCalls = run.calls]
    /\ UNCHANGED <<clientVars, callVars, lifeVars, backoff, classify, jar, session, body>>

(***************************************************************************)
(* calculateBackoffDelay on one RetryConfig. Durations are in seconds.     *)
(***************************************************************************)
\* bounds of the retry configurations and of the attempt index
MaxBaseDelay == 40
MaxBackoffFactor == 3
MaxAttemptIndex == 5

\* DefaultRetryBackoff, DefaultMaxDelay, DefaultBackoffFactor
DefaultRetryBackoff == 1
DefaultMaxDelay == 30
DefaultBackoffFactor == 2

\* the MaxDelay of a RetryConfig: the 10 s of TestCalculateBackoffDelay and
\* the 30 s of newRetryConfig
MaxDelays == {10, DefaultMaxDelay}

\* the RetryConfig values a caller of calculateBackoffDelay can hold
RetryConfigs == [BaseDelay : 0..MaxBaseDelay, MaxDelay : MaxDelays,
                 BackoffFactor : 1..MaxBackoffFactor]

\* New: a RetryBackoff of 0 becomes DefaultRetryBackoff, every other value is
\* kept
NewRetryBackoff(retryBackoff) ==
    IF retryBackoff = 0 THEN DefaultRetryBackoff ELSE retryBackoff

\* newRetryConfig: BaseDelay is config.RetryBackoff, MaxDelay and BackoffFactor
\* are the defaults
newRetryConfig(retryBackoff) ==
    [BaseDelay |-> retryBackoff, MaxDelay |-> DefaultMaxDelay,
     BackoffFactor |-> DefaultBackoffFactor]

\* the loop of calculateBackoffDelay from index i on: multiply, and on exceeding
\* MaxDelay set delay to MaxDelay and break
RECURSIVE backoffLoop(_, _, _, _)
backoffLoop(rc, att, i, delay) ==
    IF i < att
    THEN LET d == delay * rc.BackoffFactor IN
         IF d > rc.MaxDelay THEN rc.MaxDelay
                            ELSE backoffLoop(rc, att, i + 1, d)
    ELSE delay

\* calculateBackoffDelay(attempt): delay starts at BaseDelay and goes through
\* attempt rounds of the loop
calculateBackoffDelay(rc, att) == backoffLoop(rc, att, 0, rc.BaseDelay)

BackoffIdle == [retryConfig |-> newRetryConfig(DefaultRetryBackoff),
                attempt |-> 0, delay |-> 0, called |-> FALSE]

\* a call of calculateBackoffDelay with some attempt index
CalculateBackoffDelay ==
    /\ \E n \in 0..MaxAttemptIndex :
          backoff' = [backoff EXCEPT
                         !.attempt = n,
                         !.delay = calculateBackoffDelay(backoff.retryConfig, n),
                         !.called = TRUE]
    /\ UNCHANGED <<clientVars, callVars, run, lifeVars, classify, jar, session, body>>

(***************************************************************************)
(* The classifiers of errors.go, applied to one error and one status code. *)
(* classify.pc: "start", then "classified" after ClassifyError(err),       *)
(* "again" after ClassifyError of that result, "queried" after the three   *)
(* queries on err, "done" after classifyHTTPStatusCode(statusCode).        *)
(***************************************************************************)
\* most phrases of one message of the errors handed to the classifiers
MaxPhrases == 2

\* what a message can contain: the pattern groups classifyByMessage looks for, and
\* "login failed", the message of the tests, which holds none of the patterns
MessagePhrases == {"timeout", "ssl", "https", "refused", "dns", "auth",
                   "login failed"}

ErrorCodes == {ErrorCodeAuthFailure, ErrorCodeTimeout, ErrorCodeDNS,
               ErrorCodeHTTPSRequired, ErrorCodeSSLError,
               ErrorCodeConnectionRefused, ErrorCodeNetworkUnreachable,
               ErrorCodeBadGateway, ErrorCodeServiceUnavailable, ErrorCodeUnknown,
               "VERSION_INCOMPATIBLE"}

\* NewClientError(code, "test message", nil, permanent), the message kept
TestClientError(code, permanent) ==
    [typ |-> "ClientError", Code |-> code, Permanent |-> permanent,
     Message |-> "test message"]

\* errors without an inner error
PlainErrors ==
    {TestClientError(c, p) : c \in ErrorCodes, p \in BOOLEAN}
    \cup {Untyped("", 0, h) :
              h \in {x \in SUBSET MessagePhrases : Cardinality(x) <= MaxPhrases}}
    \cup {DNSError, CertError}
    \cup {OpError(d, t, h) : d \in BOOLEAN, t \in BOOLEAN,
                             h \in {{}, {"refused"}, {"unreachable"}}}

\* the errors handed to the classifiers: nil, plain ones, and plain ones inside
\* fmt.Errorf("...: %w") or inside a url.Error
ClassifyInputs ==
    {NilErr} \cup PlainErrors
    \cup {Wrap("request", "failed", 0, e) : e \in PlainErrors}
    \cup {URLError(e, h) : e \in PlainErrors \cup {NilErr}, h \in {{}, {"dns"}}}

StatusCodes == {200, 400, 401, 403, 404, 408, 429, 500, 502, 503, 504}

ClassifyIdle == [err |-> NilErr, statusCode |-> 200, pc |-> "start",
                 result |-> NilErr, again |-> NilErr, permanent |-> FALSE,
                 retryable |-> FALSE, code |-> ErrorCodeNone, http |-> NilErr]

CallClassifyError ==
    /\ classify.pc = "start"
    /\ classify' = [classify EXCEPT !.result = ClassifyError(classify.err),
                                    !.pc = "classified"]
    /\ UNCHANGED <<clientVars, callVars, run, lifeVars, backoff, jar, session, body>>

CallClassifyAgain ==
    /\ classify.pc = "classified"
    /\ classify' = [classify EXCEPT !.again = ClassifyError(classify.result),
                                    !.pc = "again"]
    /\ UNCHANGED <<clientVars, callVars, run, lifeVars, backoff, jar, session, body>>

CallErrorQueries ==
    /\ classify.pc = "again"
    /\ classify' = [classify EXCEPT !.permanent = IsPermanentError(classify.err),
                                    !.retryable = IsRetryableError(classify.err),
                                    !.code = GetErrorCode(classify.err),
                                    !.pc = "queried"]
    /\ UNCHANGED <<clientVars, callVars, run, lifeVars, backoff, jar, session, body>>

CallClassifyHTTPStatusCode ==
    /\ classify.pc = "queried"
    /\ classify' = [classify EXCEPT
                        !.http = classifyHTTPStatusCode(classify.statusCode),
                        !.pc = "done"]
    /\ UNCHANGED <<clientVars, callVars, run, lifeVars, backoff, jar, session, body>>

(***************************************************************************)
(* Specifications.                                                         *)
(*   Spec       one goroutine makes API calls; SetLastError and            *)
(*              ResetAuthFailure are called at any time                    *)
(*   SpecPair   two goroutines make API calls against a server that is up  *)
(*              and accepts the credentials, and whose sessions expire     *)
(*   SpecRetry  one executor call under a scripted operation               *)
(*   SpecCancel one goroutine makes API calls and their caller may raise   *)
(*              a cancellation signal                                      *)
(*   SpecBackoff  calls of calculateBackoffDelay on any RetryConfig        *)
(*   SpecAdmin  API calls run concurrently with Update, Close and          *)
(*              invalidateCookies                                          *)
(*   SpecLife   every operation and the sweeps, one after the other        *)
(*   SpecFair   API calls, Update, Close, invalidateCookies and the sweep  *)
(*              goroutine, concurrent, under a ticker that keeps firing    *)
(***************************************************************************)
Init ==
    /\ maxRetries \in 1..MaxRetriesBound
    /\ ClientInit
    /\ CallersIdle
    /\ run = RunIdle
    /\ LifeInit
    /\ backoff = BackoffIdle
    /\ classify = ClassifyIdle
    /\ jar = "none"
    /\ session = "none"
    /\ body = [c \in Callers |-> "none"]

Next ==
    \/ Call("c1")
    \/ UserSetLastError
    \/ Reset

Spec == Init /\ [][Next]_vars

PairCall(c) ==
    \/ StartCall(c) \/ Ensure(c) \/ LoginTop(c) \/ LoginEnter(c) \/ ProbeOk(c)
    \/ LoginOk(c) \/ LoginUpdateCache(c) \/ LoginSetValid(c) \/ LoginSetTime(c)
    \/ LoginSetConnected(c)
    \/ LoginDone(c)
    \/ RequestAuthError(c) \/ InvalidateClear(c) \/ InvalidateStatus(c)
    \/ RequestFinal(c) \/ Sleep(c)

NextPair == \E c \in Callers : PairCall(c)

SpecPair == Init /\ [][NextPair]_vars

\* A client that logged in, and whose session the server has dropped since: the
\* server answers 401 to a request that carries the old cookie, accepts the
\* credentials, and serves a request that carries the cookie of a later login.
InitExpired ==
    /\ maxRetries \in 1..MaxRetriesBound
    /\ cookieValid = TRUE
    /\ cookieCache = SessionCookies
    /\ status = StatusConnected
    /\ authFailed = FALSE
    /\ lastError = NilErr
    /\ lastLoginTime = "now"
    /\ CallersIdle
    /\ run = RunIdle
    /\ LifeInit
    /\ backoff = BackoffIdle
    /\ classify = ClassifyIdle
    /\ jar = "expired"
    /\ session = "login"
    /\ body = [c \in Callers |-> "none"]

ExpiredCall(c) ==
    \/ StartCall(c) \/ Ensure(c) \/ LoginTop(c) \/ LoginEnter(c) \/ ProbeOk(c)
    \/ LoginOk(c) \/ LoginUpdateCache(c) \/ LoginSetValid(c) \/ LoginSetTime(c)
    \/ LoginSetConnected(c)
    \/ LoginDone(c)
    \/ RequestSend(c)
    \/ (hist[c].inflight = "expired" /\ RequestAuthError(c))
    \/ InvalidateClear(c) \/ InvalidateStatus(c)
    \/ (hist[c].inflight = "fresh" /\ RequestFinal(c))
    \/ Sleep(c)

NextExpired == \E c \in Callers : ExpiredCall(c)

SpecExpired == InitExpired /\ [][NextExpired]_vars

\* a Client as the tests build it: any retry ceiling (New keeps every value
\* but 0), authFailed latched or not; the context may be cancelled before the
\* executor is called
InitRetry ==
    /\ maxRetries \in (-2)..MaxScriptRetries
    /\ cookieValid = FALSE
    /\ cookieCache = {}
    /\ status = StatusInitializing
    /\ authFailed \in BOOLEAN
    /\ lastError = NilErr
    /\ lastLoginTime = "zero"
    /\ CallersIdle
    /\ \E m \in {"plain", "ctx"}, k \in 0..(MaxScriptRetries + 2), e \in ScriptErrors,
          x \in {NilErr} \cup ContextErrors :
          /\ m = "plain" => x = NilErr
          /\ run = [RunIdle EXCEPT !.mode = m, !.pc = "top", !.k = k, !.opErr = e,
                                   !.ctxErr = x,
                                   !.cancelPc = IF x = NilErr THEN "none"
                                                ELSE IF loopCondition(0) THEN "top"
                                                ELSE "exit"]
    /\ LifeInit
    /\ backoff = BackoffIdle
    /\ classify = ClassifyIdle
    /\ jar = "none"
    /\ session = "none"
    /\ body = [c \in Callers |-> "none"]

NextRetry ==
    \/ RunAttempt
    \/ RunSleep
    \/ RunSelect
    \/ RunAuthCheck
    \/ RunOperation
    \/ RunTimer
    \/ RunCancelled
    \/ Cancel

SpecRetry == InitRetry /\ [][NextRetry]_vars

\* one goroutine makes API calls, and the program that makes them may raise a
\* cancellation signal during each
NextCancel ==
    \/ Call("c1")
    \/ CallerCancels("c1")

SpecCancel == Init /\ [][NextCancel]_vars

\* a RetryConfig of any shape, and calls of calculateBackoffDelay on it
InitBackoff ==
    /\ maxRetries \in 1..MaxRetriesBound
    /\ ClientInit
    /\ CallersIdle
    /\ run = RunIdle
    /\ LifeInit
    /\ \E rc \in RetryConfigs : backoff = [BackoffIdle EXCEPT !.retryConfig = rc]
    /\ classify = ClassifyIdle
    /\ jar = "none"
    /\ session = "none"
    /\ body = [c \in Callers |-> "none"]

NextBackoff == CalculateBackoffDelay

SpecBackoff == InitBackoff /\ [][NextBackoff]_vars

InitClassify ==
    /\ maxRetries \in 1..MaxRetriesBound
    /\ ClientInit
    /\ CallersIdle
    /\ run = RunIdle
    /\ LifeInit
    /\ backoff = BackoffIdle
    /\ \E e \in ClassifyInputs, s \in StatusCodes :
          classify = [ClassifyIdle EXCEPT !.err = e, !.statusCode = s]
    /\ jar = "none"
    /\ session = "none"
    /\ body = [c \in Callers |-> "none"]

NextClassify ==
    \/ CallClassifyError
    \/ CallClassifyAgain
    \/ CallErrorQueries
    \/ CallClassifyHTTPStatusCode

SpecClassify == InitClassify /\ [][NextClassify]_vars

\* a Client from New, with or without a BaseURL
InitAdmin ==
    /\ maxRetries = AdminRetries
    /\ ClientInit
    /\ CallersIdle
    /\ run = RunIdle
    /\ mu = "free"
    /\ \E u \in {"", BaseURL} :
          config = [BaseURL |-> u, jar |-> TRUE,
                    RequestTimeout |-> DefaultRequestTimeout]
    /\ timeout = DefaultRequestTimeout
    /\ sweep = SweepIdle
    /\ admin = AdminIdle
    /\ reset = "idle"
    /\ backoff = BackoffIdle
    /\ classify = ClassifyIdle
    /\ jar = "none"
    /\ session = "none"
    /\ body = [c \in Callers |-> "none"]

AdminCall ==
    \/ CallInvalidateCookies
    \/ CloseStart \/ CloseTransportFail \/ CloseBadStatus \/ CloseOk
    \/ UpdateLock
    \/ AdminInvalidate1 \/ AdminInvalidate2 \/ AdminInvalidate3

Sweep == SweepTick \/ SweepSetValid \/ SweepClear \/ SweepStatus

IsCookieValid ==
    \/ IsCookieValidStart \/ IsCookieValidExpiry \/ IsCookieValidExpired
    \/ IsCookieValidFail \/ IsCookieValidOk \/ IsCookieValidUpdateCache
    \/ IsCookieValidSetValid

\* API calls against a server that is up, whose sessions expire and which may
\* reject the credentials
AdminCaller(c) ==
    \/ PairCall(c)
    \/ LoginFails(c) \/ LoginFailsSetLastErr(c) \/ LoginFailsLatch(c)

\* one goroutine makes API calls while the client is configured, a second one
\* calls Update, Close and invalidateCookies, and ResetAuthFailure is called at
\* any time
NextAdmin ==
    \/ (~NotConfigured /\ AdminCaller("c1"))
    \/ Reset
    \/ AdminCall

SpecAdmin == InitAdmin /\ [][NextAdmin]_vars

\* no API call and no sweep is under way, and no call of Update, Close or
\* invalidateCookies other than an Update that waits for its own lock
Quiet ==
    /\ \A c \in Callers : pc[c] \in {"idle", "done"}
    /\ sweep.pc = "wait"
    /\ reset = "idle"
    /\ AdminReady \/ AdminStuck

\* every operation of the client, one after the other: API calls, Update, Close,
\* invalidateCookies, isCookieValid, SetLastError, ResetAuthFailure, the
\* sweeps, and the passing of time
NextLife ==
    \/ (Quiet /\ ~NotConfigured /\ StartCall("c1"))
    \/ (pc["c1"] \notin {"idle", "done"} /\ AdminCaller("c1"))
    \/ (Quiet /\ UserSetLastError)
    \/ ((Quiet \/ reset # "idle") /\ Reset)
    \/ (Quiet /\ TimePasses)
    \/ ((Quiet \/ ~AdminReady) /\ AdminCall)
    \/ ((Quiet \/ ~AdminReady) /\ IsCookieValid)
    \/ ((Quiet \/ sweep.pc # "wait") /\ Sweep)

SpecLife == InitAdmin /\ [][NextLife]_vars

\* API calls against a server that is up and accepts the credentials
FairCaller(c) ==
    \/ StartCall(c) \/ Ensure(c) \/ LoginTop(c) \/ LoginEnter(c) \/ ProbeOk(c)
    \/ LoginOk(c) \/ LoginUpdateCache(c) \/ LoginSetValid(c) \/ LoginSetTime(c)
    \/ LoginSetConnected(c)
    \/ LoginDone(c) \/ RequestFinal(c)

NextFair ==
    \/ (~NotConfigured /\ FairCaller("c1"))
    \/ AdminCall
    \/ TimePasses
    \/ Sweep

\* the ticker of the sweep goroutine keeps firing and the goroutine runs when
\* it can; a call of Update, Close or invalidateCookies that has started runs
\* when it can. No API call has to be made.
SpecFair ==
    /\ InitAdmin
    /\ [][NextFair]_vars
    /\ WF_vars(Sweep)
    /\ WF_vars(AdminInvalidate1 \/ AdminInvalidate2 \/ AdminInvalidate3
                  \/ CloseTransportFail \/ CloseBadStatus \/ CloseOk)

\* API calls against a server that accepts the credentials, calls of
\* isCookieValid by a second goroutine and the sweep goroutine, all interleaved,
\* while time passes
NextValidate ==
    \/ (~NotConfigured /\ FairCaller("c1"))
    \/ IsCookieValid
    \/ TimePasses
    \/ Sweep

SpecValidate == InitAdmin /\ [][NextValidate]_vars

\* API calls of one caller and ResetAuthFailure: the only errors SetLastError
\* records are those of the client's own logins
NextLogin ==
    \/ Call("c1")
    \/ Reset

SpecLogin == Init /\ [][NextLogin]_vars

\* one caller whose API method posts a form (AddTorrentLink): the reader is
\* built once, by the method, before doWithRetry
InitBody ==
    /\ maxRetries \in 1..MaxRetriesBound
    /\ ClientInit
    /\ CallersIdle
    /\ run = RunIdle
    /\ LifeInit
    /\ backoff = BackoffIdle
    /\ classify = ClassifyIdle
    /\ jar = "none"
    /\ session = "none"
    /\ body \in {b \in [Callers -> {"none", "full"}] : b["c2"] = "none"}

NextBody == Call("c1")

SpecBody == InitBody /\ [][NextBody]_vars

\* API calls made one after the other, on a new client or on one whose session
\* the server has dropped, while the sweep goroutine ticks at any moment; the
\* server accepts the credentials
NextSweep ==
    \/ \E c \in Callers :
          \/ ((\A d \in Callers : pc[d] \in {"idle", "done"}) /\ StartCall(c))
          \/ (pc[c] \notin {"idle", "done"} /\ ExpiredCall(c))
    \/ Sweep

SpecSweep == (Init \/ InitExpired) /\ [][NextSweep]_vars

(***************************************************************************)
(* Properties.                                                             *)
(***************************************************************************)
\* the most invocations an executor call makes: MaxRetries+1, none when that is
\* not positive
MaxInvocations == IF maxRetries + 1 > 0 THEN maxRetries + 1 ELSE 0

\* the context of the executor call was live until the call returned
NeverCancelled == run.cancelPc \in {"none", "done"}

\* C1: session-expiry self-healing. When an attempt of an API call follows an
\* attempt answered 401/403, its probe and login succeed and the endpoint
\* answers a status that is neither 401/403 nor retryable, the call has returned
\* with that response and a nil error.
C1_SelfHealing ==
    \A c \in Callers :
        hist[c].healed # 0 =>
            /\ pc[c] = "done"
            /\ err[c] = NilErr
            /\ resp[c] = hist[c].healed

\* a call answered 403 or 401 on its first attempt and 200 on its second has
\* returned the 200 with no error
C1_Witness ==
    \E c \in Callers :
        /\ hist[c].healed = 200
        /\ hist[c].authAt = 1 /\ attempt[c] = 1
        /\ pc[c] = "done" /\ err[c] = NilErr /\ resp[c] = 200

\* C2: after an endpoint request was answered 401/403, and unless another
\* call's login wrote the session in between, the validity flag is false and
\* the cookie cache is empty from the end of the invalidation until the next
\* attempt starts, and the next attempt reaches its endpoint request only
\* through a login of its own.
C2_InvalidatedThenRelogin ==
    \A c \in Callers :
        ~hist[c].foreign =>
            /\ AfterAuthError(c) => ~cookieValid /\ cookieCache = {}
            /\ (pc[c] = "request" /\ Prev401(c)) => hist[c].loggedIn

\* C2 as the specification states it: after an endpoint request was answered
\* 401/403 the validity flag is false and the cookie cache is empty until the
\* next attempt starts, whatever other calls do; and, unless another call's
\* login wrote the session in between, the next attempt reaches its endpoint
\* request only through a login of its own. The login of a concurrent call
\* that was past its checks sets the flag and fills the cache again in between.
C2_InvalidatedWhateverOthersDo ==
    \A c \in Callers :
        /\ AfterAuthError(c) => ~cookieValid /\ cookieCache = {}
        /\ ~hist[c].foreign =>
               ((pc[c] = "request" /\ Prev401(c)) => hist[c].loggedIn)

\* a call whose previous attempt was answered 401/403 stands at its endpoint
\* request again, after a login of its own, while the other call is under way
C2_Witness ==
    \E c \in Callers, d \in Callers :
        /\ c # d
        /\ pc[c] = "request" /\ Prev401(c) /\ ~hist[c].foreign /\ hist[c].loggedIn
        /\ pc[d] \notin {"idle", "done"}

\* C3: an operation whose failure is classified permanent is invoked once: the
\* executor starts no backoff sleep and no further attempt after it, in an API
\* call (doWithRetry) and in the login loop alike.
C3_PermanentInvokedOnce ==
    \A c \in Callers :
        /\ pc[c] = "sleep" => IsRetryableError(err[c])
        /\ pc[c] = "loginSleep" => IsRetryableError(lerr[c])

\* C4: a call that starts with authFailed latched, while no ResetAuthFailure
\* intervenes, makes a single attempt, never sleeps, and returns an AuthFailure
\* error.
C4_LatchedSingleAttempt ==
    \A c \in Callers :
        hist[c].latched =>
            /\ pc[c] # "sleep"
            /\ attempt[c] = 0
            /\ pc[c] = "done" => GetErrorCode(err[c]) = ErrorCodeAuthFailure

\* C5: a call that starts with authFailed latched, while no ResetAuthFailure
\* intervenes, sends no HTTP request: no probe, no login, no endpoint request.
C5_LatchedSendsNothing ==
    \A c \in Callers : hist[c].latched => ~hist[c].sent

\* C6: a call of ensureLoginWithContext made while authFailed is latched, and
\* with no ResetAuthFailure since, sends neither the accessibility probe nor
\* the login request.
C6_LatchedEnsureSendsNothing ==
    \A c \in Callers :
        hist[c].ensureLatched =>
            /\ ~hist[c].authSent
            /\ pc[c] \notin {"probe", "setLastErr", "loginPost", "fails1", "fails2",
                             "ok0", "ok1", "ok2", "ok3", "ok4", "loginSleep"}

\* C6 as the specification states it: while authFailed is true and
\* ResetAuthFailure has not been invoked, no call sends the accessibility probe
\* or the login request. A call that read authFailed before it was latched is
\* past the checks and sends both.
C6_NoSendWhileLatched ==
    [][ \A c \in Callers :
            (authFailed /\ reset = "idle" /\ pc[c] \in {"probe", "loginPost"})
                => pc'[c] = pc[c] ]_vars

\* ensureLoginWithContext was entered latched with the validity flag unset and
\* has returned the AuthFailure error without a probe or a login
C6_Witness ==
    \E c \in Callers :
        /\ hist[c].ensureLatched /\ ~hist[c].authSent /\ ~hist[c].sent
        /\ pc[c] \in {"sleep", "ensure", "done"}
        /\ GetErrorCode(err[c]) = ErrorCodeAuthFailure

\* C7: an executor call invokes its operation at most MaxRetries+1 times, and
\* never again once it has returned (with success, failure or cancellation).
C7_AtMostMaxRetriesPlusOne ==
    /\ [](run.calls <= MaxInvocations)
    /\ [][run.pc = "done" => run'.calls = run.calls /\ run'.pc = "done"]_vars

\* an executor call has used up all MaxRetries+1 invocations and returned
C7_Witness ==
    /\ run.pc = "done" /\ maxRetries = 2
    /\ run.calls = 3 /\ run.sleeps = 2
    /\ run.lastErr = Exhausted(ScriptLabel, run.opErr)

\* C8: an operation that fails transiently on its first k invocations,
\* 0 <= k <= MaxRetries, and then succeeds has been invoked k+1 times when the
\* executor returns, and the executor returns nil (the context stays live and
\* authFailed unset where the executor reads them).
C8_FailsThenSucceeds ==
    ( /\ run.pc = "done"
      /\ run.mode \in {"plain", "ctx"}
      /\ run.k <= maxRetries
      /\ IsRetryableError(run.opErr)
      /\ NeverCancelled
      /\ run.mode = "ctx" => ~authFailed )
    => run.lastErr = NilErr /\ run.calls = run.k + 1

\* TestRetryWithBackoff: MaxRetries = 2, two failures, then success at the
\* third invocation
C8_Witness ==
    /\ run.pc = "done" /\ run.mode = "plain"
    /\ maxRetries = 2 /\ run.k = 2 /\ IsRetryableError(run.opErr)
    /\ run.calls = 3 /\ run.lastErr = NilErr

\* C9: an operation that fails transiently on every invocation has been
\* invoked MaxRetries+1 times when the executor returns, and the executor
\* returns "<label> failed after <MaxRetries+1> attempts" wrapping the last
\* error (the context stays live and authFailed unset where the executor reads
\* them).
C9_AlwaysFails ==
    ( /\ run.pc = "done"
      /\ run.mode \in {"plain", "ctx"}
      /\ maxRetries >= 0
      /\ run.k > maxRetries
      /\ IsRetryableError(run.opErr)
      /\ NeverCancelled
      /\ run.mode = "ctx" => ~authFailed )
    => /\ run.calls = maxRetries + 1
       /\ run.lastErr = Wrap(ScriptLabel, "failed after attempts", maxRetries + 1,
                             run.opErr)

\* TestRetryWithBackoffFailure: MaxRetries = 2 gives three invocations and
\* "failed after 3 attempts"
C9_Witness ==
    /\ run.pc = "done" /\ run.mode = "plain"
    /\ maxRetries = 2 /\ run.k > 2
    /\ run.calls = 3
    /\ run.lastErr = Wrap(ScriptLabel, "failed after attempts", 3,
                          Untyped("simulated error", 0, {}))

\* C10: when the context of retryWithBackoffWithContext is cancelled before an
\* attempt starts or during a backoff sleep, the call returns an error that
\* wraps ctx.Err() under "cancelled" or "cancelled during retry", and the
\* operation has not been invoked since the cancellation.
C10_CancelledStops ==
    ( /\ run.pc = "done"
      /\ run.mode = "ctx"
      /\ run.cancelPc \in {"top", "sleep"} )
    => /\ run.lastErr \in {Wrap(ScriptLabel, m, 0, run.ctxErr) :
                              m \in {"cancelled", "cancelled during retry"}}
       /\ run.calls = run.cancelCalls

\* the context was cancelled during the backoff sleep after a transient
\* failure, and the call returned "cancelled during retry"
C10_Witness ==
    /\ run.pc = "done" /\ run.mode = "ctx"
    /\ run.cancelPc = "sleep" /\ run.calls = 1 /\ run.cancelCalls = 1
    /\ IsRetryableError(run.opErr)
    /\ run.lastErr = Wrap(ScriptLabel, "cancelled during retry", 0, run.ctxErr)

\* base to the power n
RECURSIVE Pow(_, _)
Pow(b, n) == IF n = 0 THEN 1 ELSE b * Pow(b, n - 1)

Min(a, b) == IF a <= b THEN a ELSE b

\* C16: the delay before the retry that follows attempt n is
\* min(BaseDelay * BackoffFactor^n, MaxDelay), for every attempt index and
\* every retry configuration.
C16_DelayIsClampedPower ==
    backoff.called =>
        backoff.delay = Min(backoff.retryConfig.BaseDelay
                                * Pow(backoff.retryConfig.BackoffFactor,
                                      backoff.attempt),
                            backoff.retryConfig.MaxDelay)

\* C17: for every attempt index and every positive BaseDelay that New accepts,
\* larger than the 30 s MaxDelay included, the delay is at most MaxDelay and is
\* not larger than the delay of the next attempt index.
C17_BoundedAndMonotonic ==
    ( /\ backoff.called
      /\ backoff.retryConfig.BaseDelay > 0
      /\ backoff.retryConfig
            = newRetryConfig(NewRetryBackoff(backoff.retryConfig.BaseDelay)) )
    => /\ backoff.delay <= backoff.retryConfig.MaxDelay
       /\ backoff.delay <= calculateBackoffDelay(backoff.retryConfig,
                                                 backoff.attempt + 1)

\* no login has written the cookie cache, the validity flag or the status since
\* the latest call of Update, Close or invalidateCookies ("call"), or the latest
\* sweep of an expired session ("sweep"), started
NoLoginWrote(who) == \A c \in Callers : who \notin hist[c].wrote

\* the session is invalidated: no cached cookie, the validity flag false, the
\* status Unauthorized
Invalidated ==
    /\ cookieCache = {}
    /\ ~cookieValid
    /\ status = StatusUnauthorized

\* C12: Close leaves the local session invalidated on every way through it: a
\* client that is not fully configured, a logout that fails in transport, a
\* logout answered with a status other than 200, and a successful logout; it
\* returns an error on the two failing ways and nil on the others. (When no
\* login has written the session since Close started.)
C12_CloseInvalidates ==
    [][ ( /\ admin.op = "Close"
          /\ admin.pc # "ret"
          /\ admin'.pc = "ret"
          /\ NoLoginWrote("call")' )
        => /\ Invalidated'
           /\ admin'.path \in {"unconfigured", "transport", "status", "ok"}
           /\ (admin'.ret # NilErr) <=> (admin'.path \in {"transport", "status"})
      ]_vars

\* C12 as the specification states it: Close leaves the local session
\* invalidated on every way through it, whatever other calls do, and returns
\* an error on the two failing ways. A login that was under way when Close
\* invalidated the session sets the flag and fills the cache afterwards.
C12_CloseAlwaysInvalidates ==
    [][ ( /\ admin.op = "Close"
          /\ admin.pc # "ret"
          /\ admin'.pc = "ret" )
        => /\ Invalidated'
           /\ admin'.path \in {"unconfigured", "transport", "status", "ok"}
           /\ (admin'.ret # NilErr) <=> (admin'.path \in {"transport", "status"})
      ]_vars

\* Close has returned the error of a logout answered 500, and the session of
\* an earlier login is invalidated
C12_Witness ==
    /\ admin.op = "Close" /\ admin.pc = "ret"
    /\ admin.path = "status"
    /\ admin.ret = Untyped("logout failed with status", 500, {})
    /\ lastLoginTime = "now"
    /\ NoLoginWrote("call")
    /\ Invalidated

\* C15: when invalidateCookies returns, called directly, by Close or by an API
\* call answered 401/403, and no login has written the session meanwhile, the
\* cookie cache has no entries, the validity flag is false and the status is
\* Unauthorized, whatever the state was before.
C15_InvalidateCookiesPost ==
    [][ ( /\ \/ admin.pc = "inval3" /\ admin'.pc = "ret"
             \/ \E c \in Callers : pc[c] = "inval2" /\ pc'[c] # "inval2"
          /\ NoLoginWrote("call")' )
        => Invalidated'
      ]_vars

\* a direct call of invalidateCookies has returned on a client that had logged
\* in, and the session is invalidated
C15_Witness ==
    /\ admin.op = "invalidateCookies" /\ admin.pc = "ret"
    /\ lastLoginTime = "now"
    /\ status = StatusUnauthorized
    /\ NoLoginWrote("call")
    /\ Invalidated

\* C13: after Close has returned the sweep is stopped: no sweep that ticks later
\* changes the validity flag, the cookie cache or the status.
C13_NoSweepAfterClose == ~admin.swept

\* C18: once authFailed is true it stays true across login attempts, API calls,
\* invalidateCookies, Update, Close, sweeps and SetLastError(nil); only
\* ResetAuthFailure sets it back to false.
C18_OnlyResetClearsLatch ==
    [][ (authFailed /\ ~authFailed') => ResetAuthFailure ]_vars

\* authFailed is still true after an API call that started under the latch has
\* returned, SetLastError(nil) has cleared the last error, Close has returned,
\* Update has run and a sweep has invalidated the session
C18_Witness ==
    /\ authFailed
    /\ lastError = NilErr
    /\ pc["c1"] = "done" /\ hist["c1"].latched
    /\ admin.closed
    /\ AdminStuck
    /\ sweep.pc = "status" /\ sweep.late

\* Update has returned
UpdateReturned == admin.op = "Update" /\ admin.pc = "ret"

\* C14: a call of Update returns, and when it has returned the validity flag is
\* false, the cookie cache is empty and the timeout of the HTTP client is the
\* new RequestTimeout when that is positive.
C14_UpdateReturnsInvalidated ==
    (admin.op = "Update" /\ admin.pc = "inval1")
        ~> ( /\ UpdateReturned
             /\ ~cookieValid
             /\ cookieCache = {}
             /\ config.RequestTimeout > 0 => timeout = config.RequestTimeout )

\* no caller is inside ensureLoginWithContext's login loop
InLogin(c) == pc[c] \in {"loginTop", "loginEnter", "probe", "setLastErr",
                         "loginPost", "fails1", "fails2", "ok0", "ok1", "ok2", "ok3",
                         "ok4", "loginSleep"}
NoLoginRunning == \A c \in Callers : ~InLogin(c)

\* C20: when a login has succeeded and no later login occurs, the sweep that
\* finds the session older than 24 hours sets the validity flag to false and
\* empties the cookie cache; with a ticker that keeps firing, a session older
\* than the expiry window is eventually invalidated, whether or not an API
\* call is made.
C20_ExpiredSessionSwept ==
    /\ []((sweep.pc = "status" /\ NoLoginWrote("sweep"))
            => (~cookieValid /\ cookieCache = {}))
    /\ (lastLoginTime = "old" /\ NoLoginRunning)
          ~> ( \/ ~cookieValid /\ cookieCache = {}
               \/ ~NoLoginRunning
               \/ lastLoginTime = "now" )

\* the sweep has cleared the flag and the cache of a session whose login
\* succeeded more than 24 hours ago, after the API call that logged in returned
C20_Witness ==
    /\ lastLoginTime = "old"
    /\ pc["c1"] = "done" /\ hist["c1"].loggedIn
    /\ sweep.pc = "status"
    /\ status = StatusConnected
    /\ NoLoginWrote("sweep")
    /\ ~cookieValid /\ cookieCache = {}

\* C19: an API call whose endpoint request is answered 401/403 on every
\* attempt, every login before it succeeding, ends with an error after exactly
\* MaxRetries+1 endpoint requests, and authFailed is still false: a 401/403 on
\* a call is retried and never latches the permanent failure.
C19_AuthErrorsExhaustRetries ==
    \A c \in Callers :
        ( /\ pc[c] = "done"
          /\ hist[c].requests > 0
          /\ hist[c].denied = hist[c].requests )
        => /\ hist[c].requests = maxRetries + 1
           /\ err[c] = Exhausted(ApiLabel,
                                 Untyped("authentication error: status code",
                                         resp[c], {}))
           /\ ~authFailed

\* with MaxRetries = 2 a call has returned after three endpoint requests, each
\* answered 401/403, and a login before each
C19_Witness ==
    /\ maxRetries = 2
    /\ pc["c1"] = "done"
    /\ hist["c1"].requests = 3 /\ hist["c1"].denied = 3
    /\ hist["c1"].loggedIn
    /\ err["c1"] # NilErr
    /\ ~authFailed

\* C11: a caller of an API method can cancel it: once the caller's cancellation
\* signal or timeout is raised during a backoff sleep or an endpoint request,
\* the call makes no further attempt.
C11_CallerCancels ==
    \A c \in Callers :
        hist[c].cancelAt > 0
        => \/ attempt[c] + 1 = hist[c].cancelAt
           \/ pc[c] \in {"ensure", "done"}

\* C22: ClassifyError is idempotent.  Applied to an error that is a ClientError,
\* or that wraps one, it returns that ClientError with the same code, message
\* and permanence; ClassifyError(ClassifyError(e)) = ClassifyError(e) for every
\* non-nil e; ClassifyError(nil) = nil.
C22_ClassifyIdempotent ==
    /\ classify.pc # "start" =>
          /\ classify.err = NilErr => classify.result = NilErr
          /\ classify.err.typ = "ClientError" => classify.result = classify.err
          /\ ( /\ classify.err.typ \in Wrappers
               /\ classify.err.inner.typ = "ClientError" )
             => classify.result = classify.err.inner
          /\ classify.err # NilErr => classify.result.typ = "ClientError"
    /\ classify.pc \in {"again", "queried", "done"} =>
          classify.again = classify.result

\* ClassifyError was applied twice, starting from an error that wraps a
\* permanent ClientError with a message
C22_Witness ==
    /\ classify.pc = "again"
    /\ classify.err.typ = "wrap"
    /\ classify.again = TestClientError(ErrorCodeAuthFailure, TRUE)

\* C23: classifyHTTPStatusCode returns AuthFailure, permanent, for 401 and 403,
\* BadGateway for 502, ServiceUnavailable for 503, Timeout for 504 and Unknown
\* for every other status code, 500 included; only 401 and 403 are permanent.
C23_StatusMapping ==
    classify.pc = "done" =>
        /\ classify.http.Code =
              ( CASE classify.statusCode \in {401, 403} -> ErrorCodeAuthFailure
                  [] classify.statusCode = 502 -> ErrorCodeBadGateway
                  [] classify.statusCode = 503 -> ErrorCodeServiceUnavailable
                  [] classify.statusCode = 504 -> ErrorCodeTimeout
                  [] OTHER -> ErrorCodeUnknown )
        /\ classify.http.Permanent = (classify.statusCode \in {401, 403})

\* status 500 was classified
C23_Witness ==
    /\ classify.pc = "done"
    /\ classify.statusCode = 500
    /\ classify.http = NewClientError(ErrorCodeUnknown, FALSE)

\* C24: every untyped error whose message is an authentication-failure message,
\* "login failed" included, is AuthFailure and permanent: IsPermanentError is
\* true, IsRetryableError is false, GetErrorCode is AUTH_FAILURE.
C24_AuthMessagesPermanent ==
    ( /\ classify.pc \in {"queried", "done"}
      /\ classify.err.typ = "untyped"
      /\ classify.err.has \cap {"auth", "login failed"} # {} )
    => /\ classify.permanent
       /\ ~classify.retryable
       /\ classify.code = ErrorCodeAuthFailure

\* C21: two concurrent API calls that both meet an expired session (401/403)
\* each invalidate and log in again without coordination; the credentials being
\* accepted and MaxRetries >= 1, every call returns success, whatever the
\* interleaving.
C21_BothSucceed ==
    \A c \in Callers :
        pc[c] = "done" => err[c] = NilErr /\ resp[c] \notin {0, 401, 403}

\* both calls were answered 401 with the old cookie, both logged in again, and
\* both have returned success
C21_Witness ==
    \A c \in Callers :
        /\ pc[c] = "done" /\ err[c] = NilErr
        /\ hist[c].denied = 1 /\ hist[c].loggedIn

\* C25: in doWithRetry a received response fails the attempt exactly when its
\* status is 401, 403 or one of RetryableCodes (408, 429, 500, 502, 503, 504);
\* a response with any other status ends the call on that attempt with a nil
\* error and that response.
C25_ResponseOutcome ==
    [][\A c \in Callers :
          ( /\ pc[c] = "request"
            /\ hist'[c].requests = hist[c].requests + 1
            /\ resp'[c] # 0 )
          => IF resp'[c] \in {401, 403, 408, 429, 500, 502, 503, 504}
             THEN \/ pc'[c] = "inval1"
                  \/ pc'[c] \in {"sleep", "ensure"} /\ err'[c] # NilErr
             ELSE /\ pc'[c] = "done"
                  /\ err'[c] = NilErr
                  /\ attempt'[c] = attempt[c]]_vars

\* a call whose first response failed the attempt has ended on its second
\* attempt with status 400 and a nil error
C25_Witness ==
    \E c \in Callers :
        /\ pc[c] = "done" /\ err[c] = NilErr /\ resp[c] = 400
        /\ attempt[c] = 1 /\ hist[c].requests = 2

\* C26: in loginWithContext the accessibility probe precedes the credential
\* POST; when the probe fails (transport error or status >= 500) the status
\* becomes StatusUnaccessible, the classified error is recorded as last error
\* and returned, and that login sends no credential POST.
C26_ProbeBeforePost ==
    [][\A c \in Callers :
          /\ (pc[c] = "loginPost" /\ pc'[c] # "loginPost")
             => hist[c].probe = "ok"
          /\ pc'[c] = "loginPost" => hist'[c].probe = "ok"
          /\ (hist[c].probe # "failed" /\ hist'[c].probe = "failed")
             => /\ status' = StatusUnaccessible
                /\ lerr'[c].typ = "ClientError"
                /\ lerr'[c] \in {ClassifyError(t) : t \in TransportErrors}
                        \cup {classifyHTTPStatusCode(s) : s \in {500, 503}}
          /\ (hist[c].probe = "failed" /\ pc'[c] # pc[c])
             => /\ lastError' = lerr[c]
                /\ lerr'[c] = lerr[c]
                /\ hist'[c].probe = "none"
                /\ pc'[c] \in {"loginSleep", "loginTop", "sleep", "ensure"}]_vars

\* a login whose probe was answered 503 has returned SERVICE_UNAVAILABLE to the
\* login loop, which sleeps before its next attempt; the error is the last error
C26_Witness ==
    \E c \in Callers :
        /\ pc[c] = "loginSleep"
        /\ hist[c].probe = "none"
        /\ lerr[c] = NewClientError(ErrorCodeServiceUnavailable, FALSE)
        /\ lastError = lerr[c]
        /\ status = StatusUnaccessible

\* C27: a login answered 200 with "Fails." in the body yields an AuthFailure
\* error with Permanent = true, sets authFailed and the status Unauthorized,
\* records the error as last error, and leaves the validity flag false and the
\* cookie cache as it was.
C27_FailsLatches ==
    [][\A c \in Callers :
          /\ (pc[c] = "loginPost" /\ pc'[c] = "fails1")
             => /\ status' = StatusUnauthorized
                /\ lerr'[c] = NewClientError(ErrorCodeAuthFailure, TRUE)
          /\ (pc[c] = "fails1" /\ pc'[c] = "fails2")
             => /\ lastError' = NewClientError(ErrorCodeAuthFailure, TRUE)
                /\ authFailed'
          /\ (pc[c] = "fails2" /\ pc'[c] # "fails2")
             => /\ authFailed'
                /\ lerr'[c] = NewClientError(ErrorCodeAuthFailure, TRUE)
                /\ GetErrorCode(err'[c]) = ErrorCodeAuthFailure
                /\ IsPermanentError(err'[c])
          /\ (pc[c] \in {"loginPost", "fails1", "fails2"}
                 /\ pc'[c] \in {"fails1", "fails2", "sleep", "ensure"})
             => /\ ~cookieValid'
                /\ cookieValid' = cookieValid
                /\ cookieCache' = cookieCache]_vars

\* a login answered "Fails." has returned: the latch is set, the status is
\* Unauthorized, the error is the last error, the session is still invalid
C27_Witness ==
    \E c \in Callers :
        /\ pc[c] \in {"sleep", "ensure"}
        /\ lerr[c] = NewClientError(ErrorCodeAuthFailure, TRUE)
        /\ err[c] = Wrap("", "failed to ensure login", 0, lerr[c])
        /\ authFailed
        /\ status = StatusUnauthorized
        /\ lastError = lerr[c]
        /\ ~cookieValid /\ cookieCache = {}

\* C28: a successful login (probe ok, POST answered 200 without "Fails.")
\* stores the returned cookies in the cookie cache, sets the validity flag,
\* records lastLoginTime, sets the status Connected and clears the last error;
\* a login that fails never sets the validity flag.
C28_LoginSuccessEffects ==
    [][/\ \A c \in Callers :
             /\ (pc[c] = "loginPost" /\ pc'[c] = "ok0")
                => hist[c].probe = "ok"
             /\ (pc[c] = "ok0" /\ pc'[c] # "ok0")
                => pc'[c] = "ok1" /\ SessionCookies \subseteq cookieCache'
             /\ (pc[c] = "ok1" /\ pc'[c] # "ok1")
                => pc'[c] = "ok2" /\ cookieValid'
             /\ (pc[c] = "ok2" /\ pc'[c] # "ok2")
                => pc'[c] = "ok3" /\ lastLoginTime' = "now"
             /\ (pc[c] = "ok3" /\ pc'[c] # "ok3")
                => pc'[c] = "ok4" /\ status' = StatusConnected
             /\ (pc[c] = "ok4" /\ pc'[c] # "ok4")
                => /\ pc'[c] = "request"
                   /\ lastError' = NilErr
                   /\ hist'[c].loggedIn
       /\ (~cookieValid /\ cookieValid')
          => \E c \in Callers : pc[c] = "ok1" /\ pc'[c] = "ok2"]_vars

\* a successful login has returned and left the session established
C28_Witness ==
    \E c \in Callers :
        /\ pc[c] = "request" /\ hist[c].loggedIn
        /\ cookieValid /\ cookieCache = SessionCookies
        /\ lastLoginTime = "now"
        /\ status = StatusConnected
        /\ lastError = NilErr
        /\ jar = "fresh"

\* C29: ensureLoginWithContext returns nil without sending any HTTP request
\* whenever the cached validity flag is true; a login is attempted only when
\* the flag is false.
C29_EnsureUsesCachedFlag ==
    [][\A c \in Callers :
          /\ (pc[c] = "ensure" /\ pc'[c] \notin {"ensure", "done"})
             => IF cookieValid
                THEN /\ pc'[c] = "request"
                     /\ ~hist'[c].authSent
                     /\ hist'[c].sent = hist[c].sent
                     /\ hist'[c].requests = hist[c].requests
                     /\ err'[c] = err[c]
                ELSE pc'[c] = "loginTop"
          /\ (pc[c] \in {"idle", "ensure", "request", "inval1", "inval2", "sleep",
                        "done"}
                 /\ pc'[c] \in {"loginTop", "loginEnter", "probe", "setLastErr",
                                "loginPost", "fails1", "fails2", "ok0", "ok1", "ok2",
                                "ok3", "ok4", "loginSleep"})
             => pc[c] = "ensure" /\ ~cookieValid
          /\ (hist'[c].authSent /\ ~hist[c].authSent) => pc[c] = "probe"]_vars

\* a call found the flag set and stands at its endpoint request without having
\* sent anything
C29_Witness ==
    \E c \in Callers :
        /\ pc[c] = "request"
        /\ cookieValid
        /\ ~hist[c].sent /\ ~hist[c].loggedIn

\* C30: in every reachable state the validity flag is true only if a login
\* succeeded and no invalidation (invalidateCookies, Update, Close, the expiry
\* sweep) happened after that login; isCookieValid never turns the flag back to
\* true after an invalidation without a new successful login.
C30_ValidOnlyAfterLogin == cookieValid => session = "login"

\* C31: when a tick of the expiry sweep interleaves with a successful login at
\* any point, also between the login's setCookieValid(true) and its write of
\* lastLoginTime, that call and the next API call return success, and the next
\* call performs at most one login.
C31_SweepCostsOneLogin ==
    \A c \in Callers :
        /\ pc[c] = "done" => err[c] = NilErr /\ resp[c] \notin {0, 401, 403}
        /\ hist[c].logins <= 1

\* the sweep found the new client's session expired while the first call logged
\* in and cleared the flag; the next call has logged in once more and succeeded
C31_Witness ==
    /\ pc["c1"] = "done" /\ err["c1"] = NilErr /\ hist["c1"].logins = 1
    /\ pc["c2"] = "done" /\ err["c2"] = NilErr /\ hist["c2"].logins = 1
    /\ hist["c1"].denied = 0 /\ hist["c2"].denied = 0
    /\ sweep.pc = "wait"
    /\ cookieValid

\* C32: every access to the shared session state by concurrent API calls,
\* Update and the sweep holds the lock that guards the field: in no reachable
\* state are two accesses to the same field enabled in different goroutines,
\* neither holding a lock, one of them a write.  Checked for lastLoginTime.
C32_NoUnlockedConflict ==
    \A w \in TimeWriters : (TimeWriters \cup TimeReaders) \ {w} = {}

\* C33: Update never waits for a lock it holds itself (it takes qb.mu and then
\* calls invalidateCookies, whose setStatus takes qb.mu), so it terminates and
\* the operations that take qb.mu can proceed after it: in no reachable state is
\* a goroutine that holds qb.mu waiting to lock qb.mu.
C33_UpdateNeverWaitsForOwnLock ==
    ~(admin.pc = "inval3" /\ mu = admin.op)

\* C34: every attempt of one doWithRetry call sends the same request: a retry
\* of a request with a body transmits the full body again, never the unread
\* remainder of the reader that an earlier attempt consumed.
C34_RetrySendsSameBody ==
    \A c \in Callers : "empty" \notin hist[c].bodies

\* C35: one API call invokes loginWithContext at most MaxRetries+1 times in
\* total, also when every login attempt fails with a transient error.
C35_LoginsPerCallBounded ==
    \A c \in Callers : hist[c].logins <= maxRetries + 1

\* C36: for every MaxRetries that New keeps (every integer but 0, negative ones
\* included), an executor call whose context stays live and that reads
\* authFailed unset has invoked the operation at least once when it returns,
\* and the error it returns is not one that wraps no error of the operation.
C36_OperationInvokedOnce ==
    ( /\ run.pc = "done"
      /\ run.mode \in {"plain", "ctx"}
      /\ maxRetries # 0
      /\ NeverCancelled
      /\ run.mode = "ctx" => ~authFailed )
    => /\ run.calls >= 1
       /\ run.lastErr # Exhausted(ScriptLabel, NilErr)

\* no API call, no Update, Close or invalidateCookies and no sweep is under way
Quiescent ==
    /\ \A c \in Callers : pc[c] \in {"idle", "done"}
    /\ AdminReady
    /\ reset = "idle"
    /\ sweep.pc = "wait"

\* C37: in every quiescent state reached by any interleaving of API calls,
\* logins, invalidations and sweep ticks, status = Connected implies that the
\* cached validity flag is true.
C37_ConnectedImpliesValid ==
    Quiescent => (status = StatusConnected => cookieValid)

\* C38: whenever SetLastError records an error whose code is AuthFailure,
\* authFailed is true afterwards; a login answered 401 or 403 records such an
\* error and so latches authFailed; and a call made after that, before any
\* ResetAuthFailure, sends no request and fails with the AuthFailure error.
C38_LoginAuthFailureLatches ==
    /\ [][(lastError' # lastError
            /\ GetErrorCode(lastError') = ErrorCodeAuthFailure) => authFailed']_vars
    /\ [][\A c \in Callers :
            ( /\ pc[c] = "loginPost"
              /\ pc'[c] \in {"sleep", "ensure", "done"}
              /\ GetErrorCode(lerr'[c]) = ErrorCodeAuthFailure )
            => /\ lastError' = lerr'[c]
               /\ authFailed'
               /\ ~cookieValid']_vars
    /\ [](\A c \in Callers :
            hist[c].latched =>
                /\ ~hist[c].sent
                /\ pc[c] = "done" => GetErrorCode(err[c]) = ErrorCodeAuthFailure)

\* a call made after a login was answered 401 or 403 has failed with the
\* AuthFailure error without sending a request
C38_Witness ==
    /\ authFailed /\ ~cookieValid
    /\ lastError = classifyHTTPStatusCode(401)
    /\ hist["c1"].latched /\ ~hist["c1"].sent
    /\ pc["c1"] = "done"
    /\ GetErrorCode(err["c1"]) = ErrorCodeAuthFailure

\* C39: a tick of the sweep leaves the status Initializing unchanged, on a new
\* client (no login attempt, invalidateCookies, Update or Close yet), where
\* GetStatus returns Initializing, and after ResetAuthFailure set it.
C39_SweepKeepsInitializing ==
    [][(sweep' # sweep /\ status = StatusInitializing)
          => status' = StatusInitializing]_vars

====
